---- MODULE Spec2Model ----
(***************************************************************************)
(* Menu Vision job-processing pipeline.                                    *)
(*                                                                         *)
(* Two entry points of the repository are modelled:                        *)
(*   - the fallback-chain processing Lambda (backend/handlers/process.py), *)
(*     preceded by the submit Lambda that mints the job, and               *)
(*   - run_pipeline (menu_vision/pipeline.py), the OCR-only orchestrator.  *)
(* Both fan out to the image-generation workers of backend/image_gen.py.   *)
(* External services (S3, Textract, Bedrock) are the environment: every    *)
(* call returns one of the outcomes the client library can produce,        *)
(* including raising.  An S3 put_object either stores the object and       *)
(* returns, or raises and stores nothing.                                  *)
(***************************************************************************)
EXTENDS Integers, Sequences, FiniteSets, TLC

\* ------------------------------------------------------------------ bounds
MaxDishes == 2
MaxOcrLines == 3
MaxClock == 2
MaxInvocations == 2
MaxEntries == 2

\* ------------------------------------------------------- program constants
MAX_RETRIES == 3
BASE_DELAY == 1
MIN_OCR_LINES == 3
TEXTRACT_MAX_BYTES == 5000000
PLACEHOLDER_IMAGE_URL == "placeholder://no-image"

None == "<None>"

PROCESSING == "processing"
COMPLETED == "completed"
FAILED == "failed"
PARTIAL == "partial"
JobStatus == {PROCESSING, COMPLETED, FAILED, PARTIAL}
TerminalStatus == {COMPLETED, FAILED, PARTIAL}

\* ------------------------------------------------------------- data model
DishNames == {"A", "B"}

DishRecord(name) == [original_name |-> name, image_url |-> None]

MenuResult(jid, st, ds, msg) ==
    [job_id |-> jid, status |-> st, source_language |-> None,
     dishes |-> ds, error_message |-> msg]

\* No object under the key / nothing returned yet.
NoResult == MenuResult(None, None, <<>>, None)

\* The dish lists an extraction call can return: every sequence of at most
\* MaxDishes names (order and repetition are the model's to choose).
RECURSIVE SeqsUpTo(_)
SeqsUpTo(n) ==
    IF n = 0 THEN {<<>>}
    ELSE LET shorter == SeqsUpTo(n - 1)
         IN  shorter \cup
             {Append(s, DishRecord(d)) : s \in {t \in shorter : Len(t) = n - 1},
                                         d \in DishNames}
DishLists == SeqsUpTo(MaxDishes)

\* Exceptions in flight.
NoExc == [type |-> None, msg |-> None, origin |-> None]
Exc(t, m, o) == [type |-> t, msg |-> m, origin |-> o]

\* Image bytes: their length and their encoding.
Bytes(size, enc) == [size |-> size, encoding |-> enc]
NoBytes == Bytes(0, None)

\* _compress_for_textract: a new JPEG buffer; its argument is not modified.
CompressForTextract(b) == Bytes(TEXTRACT_MAX_BYTES, "jpeg")

\* The frame of a running _extract_dishes: its parameter image_bytes, its
\* locals, and the calls it has made to the structuring model.
NoFrame ==
    [image_bytes |-> NoBytes, textract_bytes |-> NoBytes, ocr |-> None,
     line_count |-> -1, calls |-> <<>>]

ModelCall(fn, image, out) == [fn |-> fn, image |-> image, outcome |-> out]

\* parse_llm_response, the messages of its structuring errors.
StructuringErrors ==
    {"Failed to parse LLM response as JSON and could not recover partial array",
     "Expected JSON array from LLM, got dict"}

\* JSON values given to parse_llm_response.  Strings are sequences of
\* characters.  A JSON value has a type t, for a string its characters s
\* (for a number, boolean, list or object: what str() renders it as), and
\* for a list its items.
Q == "\""
BS == "\\"
Whitespace == {" ", "\n"}

JAbsent == [t |-> "absent", s |-> <<>>, items |-> <<>>]
JNull == [t |-> "null", s |-> <<>>, items |-> <<>>]
JStr(chars) == [t |-> "str", s |-> chars, items |-> <<>>]
JNum == [t |-> "num", s |-> <<"7">>, items |-> <<>>]
JBool == [t |-> "bool", s |-> <<"T", "r", "u", "e">>, items |-> <<>>]
JObj == [t |-> "obj", s |-> <<"{", "}">>, items |-> <<>>]
JList(items) == [t |-> "list", s |-> <<"[", "...", "]">>, items |-> items]

Keys == <<"original_name", "translated_name", "description", "ingredients",
          "price">>

\* An entry of the top-level array: a dish-shaped object, or something else.
Entry(name, translated, description, ingredients, price) ==
    [kind |-> "object",
     fields |-> [original_name |-> name, translated_name |-> translated,
                 description |-> description, ingredients |-> ingredients,
                 price |-> price]]
NonObject(kind) ==
    [kind |-> kind,
     fields |-> [original_name |-> JAbsent, translated_name |-> JAbsent,
                 description |-> JAbsent, ingredients |-> JAbsent,
                 price |-> JAbsent]]

\* The value json.loads produces: a list of entries, or not a list.
TopList(items) == [t |-> "list", items |-> items]
TopDict == [t |-> "dict", items |-> <<>>]
NoTop == [t |-> "none", items |-> <<>>]

\* A response: the JSON text of a value, in a markdown fence or not, cut
\* after `cut` characters (-1: not cut).
Response(value, fenced, cut) == [value |-> value, fenced |-> fenced, cut |-> cut]
NoResponse == Response(NoTop, FALSE, -1)

NotParsed == [status |-> "idle", dishes |-> <<>>, error |-> None]
Parsed(ds) == [status |-> "returned", dishes |-> ds, error |-> None]
Raised(msg) == [status |-> "raised", dishes |-> <<>>, error |-> msg]

\* menu_vision/models.py: a value of DishRecord or MenuResult with every
\* field, the dict its to_json gives and the value from_json makes of that.
NoWire == [kind |-> "none"]
NoRoundTrip == [value |-> NoWire, wire |-> NoWire, back |-> NoWire]

\* The status Lambda: the event it is given, the object under
\* {job_id}/result.json, the error the S3 call raised, what get_results
\* returned or raised, and the response of the handler.
NoStatusCall ==
    [event_ok |-> TRUE, stored |-> NoWire, error |-> None,
     fetched |-> "pending", result |-> NoWire, statusCode |-> 0,
     body |-> NoWire]

\* A run of the process handler that has not started.
NoRun == [pc |-> "idle"]

\* ------------------------------------------------------------ storage keys
\* An intake key is held as its path segments; NoKey: no key signed yet.
IntakeKey(jid) == <<jid, "menu_image">>
NoKey == <<>>

\* Mutant of JobIdOfKey: the last path segment is taken.
JobIdOfKeyLastSegment(key) == key[Len(key)]

\* source_key.split("/")[0]
JobIdOfKey(key) == key[1]
ImageKey(jid, idx) == jid \o "/dish_" \o ToString(idx) \o ".png"
ResultKey(jid) == jid \o "/result.json"
PresignedUrl(key) == "https://images/" \o key \o "?X-Amz-Expires=3600"
GeneratedUrl(idx) == "generated://dish_" \o ToString(idx) \o ".png"

VARIABLES
    entry,              \* which entry point runs: "handler" or "run_pipeline"
    pc,                 \* position of the orchestrator thread
    upload_key,         \* intake key the submit handler signed an upload URL for
    submit_pc,          \* position of the submit Lambda
    invocations,        \* process-handler invocations started for the job
    job_id,             \* job identifier of the running invocation
    dishes,             \* the orchestrator's dish list (mutated in place)
    extraction_method,  \* timings["extraction_method"]
    task,               \* idx -> state of the _generate_with_retry task
    consumed,           \* indices whose future the orchestrator has consumed
    results,            \* generate_all_dish_images: outcomes in completion order
    any_failed,
    completed_count,
    frame,              \* the frame of _extract_dishes while it runs
    exc,                \* the exception that left the try body, if any
    published,          \* JobResults written to result.json by this invocation
    result_json,        \* the object {job_id}/result.json in the results bucket
    image_store,        \* the objects in the images bucket
    result_keys,        \* keys written in the results bucket
    timeout_threshold,  \* run_pipeline parameter
    elapsed,            \* last reading of time.monotonic() - start_time
    timed_out,          \* run_pipeline: a timeout checkpoint was hit
    returned,           \* run_pipeline's return value
    response,           \* parse_llm_response: the model output it is given
    parsed,             \* parse_llm_response: what it returned or raised
    roundtrip,          \* models.py: a value, its to_json and the from_json of that
    status_call,        \* status Lambda: the sink it reads and its response
    run_a, run_b        \* two runs of the process handler, side by side

vars == <<entry, pc, upload_key, submit_pc, invocations, job_id, dishes, extraction_method, frame, task,
          consumed, results, any_failed, completed_count, exc, published,
          result_json, image_store, result_keys, timeout_threshold, elapsed,
          timed_out,
          returned, response, parsed, roundtrip, status_call, run_a, run_b>>

poolVars == <<task, consumed, results, any_failed, completed_count>>
sinkVars == <<published, result_json, image_store, result_keys>>
clockVars == <<timeout_threshold, elapsed, timed_out, returned>>
parserVars == <<response, parsed>>
unitVars == <<parserVars, roundtrip, status_call, run_a, run_b>>

Indices == 0 .. (Len(dishes) - 1)
NoTasks == [i \in {} |-> 0]

Init ==
    /\ entry \in {"handler", "run_pipeline"}
    /\ pc = IF entry = "handler" THEN "submit" ELSE "rp_start"
    /\ upload_key = NoKey
    /\ submit_pc = "start"
    /\ invocations = 0
    /\ job_id = None
    /\ dishes = <<>>
    /\ extraction_method = None
    /\ frame = NoFrame
    /\ task = NoTasks
    /\ consumed = {}
    /\ results = <<>>
    /\ any_failed = FALSE
    /\ completed_count = 0
    /\ exc = NoExc
    /\ published = <<>>
    /\ result_json = NoResult
    /\ image_store = {}
    /\ result_keys = {}
    /\ timeout_threshold \in IF entry = "handler" THEN {0} ELSE 1 .. MaxClock
    /\ elapsed = 0
    /\ timed_out = FALSE
    /\ returned = NoResult
    /\ response = NoResponse
    /\ parsed = NotParsed
    /\ roundtrip = NoRoundTrip
    /\ status_call = NoStatusCall
    /\ run_a = NoRun
    /\ run_b = NoRun

\* ------------------------------------------------ image generation workers
\* backend/image_gen.py, _generate_with_retry: one step is one call of
\* generate_dish_image together with the handling of its outcome.  A task
\* records the loop variable `attempt`, the calls made to the generation
\* service, the outcome of the last call and the delays passed to
\* time.sleep.
NewTask ==
    [state |-> "running", attempt |-> 0, calls |-> 0, last |-> None,
     slept |-> <<>>]

\* Mutants of GenerateWithRetryStep: one attempt too many, a linear backoff,
\* and a non-throttling error retried like a throttle.
GenerateWithRetryStepExtraAttempt(t, out) ==
    CASE out = "image" ->
            [t EXCEPT !.state = "ok", !.calls = @ + 1, !.last = out]
      [] out = "throttled" ->
            [t EXCEPT !.calls = @ + 1, !.last = out,
                      !.slept = Append(@, BASE_DELAY * (2 ^ t.attempt)),
                      !.attempt = @ + 1,
                      !.state = IF t.attempt < MAX_RETRIES
                                THEN "running" ELSE "fail"]
      [] OTHER ->
            [t EXCEPT !.state = "fail", !.calls = @ + 1, !.last = out]

GenerateWithRetryStepLinear(t, out) ==
    CASE out = "image" ->
            [t EXCEPT !.state = "ok", !.calls = @ + 1, !.last = out]
      [] out = "throttled" ->
            [t EXCEPT !.calls = @ + 1, !.last = out,
                      !.slept = Append(@, BASE_DELAY * (t.attempt + 1)),
                      !.attempt = @ + 1,
                      !.state = IF t.attempt + 1 < MAX_RETRIES
                                THEN "running" ELSE "fail"]
      [] OTHER ->
            [t EXCEPT !.state = "fail", !.calls = @ + 1, !.last = out]

GenerateWithRetryStepRetriesAll(t, out) ==
    CASE out = "image" ->
            [t EXCEPT !.state = "ok", !.calls = @ + 1, !.last = out]
      [] OTHER ->
            [t EXCEPT !.calls = @ + 1, !.last = out,
                      !.slept = Append(@, BASE_DELAY * (2 ^ t.attempt)),
                      !.attempt = @ + 1,
                      !.state = IF t.attempt + 1 < MAX_RETRIES
                                THEN "running" ELSE "fail"]

\* Mutant of GenerateWithRetryStep: a throttled task starts its attempts
\* over instead of giving up.
GenerateWithRetryStepForever(t, out) ==
    CASE out = "image" ->
            [t EXCEPT !.state = "ok", !.calls = @ + 1, !.last = out]
      [] out = "throttled" ->
            [t EXCEPT !.last = out, !.attempt = (@ + 1) % MAX_RETRIES]
      [] OTHER ->
            [t EXCEPT !.state = "fail", !.calls = @ + 1, !.last = out]

GenerateWithRetryStep(t, out) ==
    CASE out = "image" ->
            [t EXCEPT !.state = "ok", !.calls = @ + 1, !.last = out]
      [] out = "throttled" ->
            [t EXCEPT !.calls = @ + 1, !.last = out,
                      !.slept = Append(@, BASE_DELAY * (2 ^ t.attempt)),
                      !.attempt = @ + 1,
                      !.state = IF t.attempt + 1 < MAX_RETRIES
                                THEN "running" ELSE "fail"]
      [] OTHER ->
            [t EXCEPT !.state = "fail", !.calls = @ + 1, !.last = out]

GenOutcomes == {"image", "throttled", "error"}

\* Mutant of DishAfterAttempt: the worker records its image in the dish.
DishAfterAttemptMarked(dish, idx, out) ==
    IF out = "image" THEN [dish EXCEPT !.image_url = GeneratedUrl(idx)]
    ELSE dish

\* The dish a worker was handed, after an attempt: build_image_prompt and
\* generate_dish_image read it and assign none of its fields.
DishAfterAttempt(dish, idx, out) == dish

WorkerAttempt(idx) ==
    /\ pc \in {"pool", "pool_exit", "rp_pool"}
    /\ idx \in DOMAIN task
    /\ task[idx].state = "running"
    /\ \E out \in GenOutcomes :
          /\ task' = [task EXCEPT ![idx] = GenerateWithRetryStep(@, out)]
          /\ dishes' = [dishes EXCEPT ![idx + 1] = DishAfterAttempt(@, idx, out)]
    /\ UNCHANGED <<unitVars, submit_pc, frame, entry, pc, upload_key, invocations, job_id,
                   extraction_method, consumed, results, any_failed,
                   completed_count, exc, sinkVars, clockVars>>

Finished(idx) == task[idx].state # "running"
AllFinished == \A i \in DOMAIN task : Finished(i)

\* executor.submit for every dish (MaxDishes stays below MAX_WORKERS = 10,
\* so every submitted task gets a thread at once).
SubmitAll(ds) == [i \in 0 .. (Len(ds) - 1) |-> NewTask]

\* ----------------------------------------------------------- result sink
\* backend/storage.py, store_results: a full-document overwrite of
\* {job_id}/result.json.
StoreResults(r) ==
    /\ published' = Append(published, r)
    /\ result_json' = r
    /\ result_keys' = result_keys \cup {ResultKey(job_id)}

\* The bytes the generation service returns for the task of dish idx.
ImageFor(idx) == "png-for-dish-" \o ToString(idx)

\* Mutant of PutObject: the write is acknowledged and lost.
PutObjectLost(store, key, body) == store

\* put_object in the images bucket: the object under the key is replaced.
PutObject(store, key, body) ==
    {o \in store : o.key # key} \cup {[key |-> key, body |-> body]}

PutFailed(where) == Exc("ClientError", "put_object failed", where)

\* ------------------------------------------------------------ submit Lambda
NewJobId == "job-1"

\* uuid4 and generate_presigned_url: the upload URL is signed, and is not
\* yet in the client's hands.
Submit ==
    /\ pc = "submit"
    /\ submit_pc = "start"
    /\ \E ok \in BOOLEAN :
          IF ok
          THEN /\ upload_key' = IntakeKey(NewJobId)
               /\ submit_pc' = "store"
               /\ pc' = pc
          ELSE /\ submit_pc' = "500"
               /\ pc' = "submit_500"
               /\ UNCHANGED upload_key
    /\ UNCHANGED <<unitVars, frame, entry, invocations, job_id, dishes, extraction_method,
                   poolVars, exc, sinkVars, clockVars>>

\* Mutant of UploadUrlKnown: the client has the URL as soon as it is signed.
UploadUrlKnownOnSigning(sp) == sp \in {"store", "returned"}

\* The client can upload once the handler has returned its 200 response,
\* whose body carries the URL.
UploadUrlKnown(sp) == sp = "returned"

\* store_results of the initial MenuResult, and the response: 200 with the
\* upload URL, or 500 when the write raised.
SubmitStore ==
    /\ submit_pc = "store"
    /\ \E ok \in BOOLEAN :
          IF ok
          THEN /\ result_json' = MenuResult(NewJobId, PROCESSING, <<>>, None)
               /\ result_keys' = result_keys \cup {ResultKey(NewJobId)}
               /\ submit_pc' = "returned"
               /\ pc' = IF pc = "submit" THEN "awaiting_upload" ELSE pc
          ELSE /\ submit_pc' = "500"
               /\ pc' = IF pc = "submit" THEN "submit_500" ELSE pc
               /\ UNCHANGED <<result_json, result_keys>>
    /\ UNCHANGED <<unitVars, frame, entry, upload_key, invocations, job_id, dishes,
                   extraction_method, poolVars, exc, published, image_store,
                   clockVars>>

\* ----------------------------------------------------------- process Lambda
\* The client PUTs the image to the signed key; S3 invokes the handler.
S3Event ==
    /\ pc \in {"submit", "awaiting_upload"}
    /\ UploadUrlKnown(submit_pc)
    /\ invocations = 0
    /\ invocations' = 1
    /\ job_id' = JobIdOfKey(upload_key)
    /\ pc' = "s3_read"
    /\ UNCHANGED <<unitVars, submit_pc, frame, entry, upload_key, dishes, extraction_method, poolVars,
                   exc, sinkVars, clockVars>>

HandlerReadImage ==
    /\ pc = "s3_read"
    /\ \E ok \in BOOLEAN, size \in {1, TEXTRACT_MAX_BYTES + 1} :
          IF ok
          THEN /\ pc' = "ocr"
               /\ exc' = exc
               /\ frame' = [NoFrame EXCEPT !.image_bytes = Bytes(size, "raw")]
          ELSE /\ exc' = Exc("ClientError", "get_object failed", "s3_read")
               /\ pc' = "except"
               /\ frame' = frame
    /\ UNCHANGED <<unitVars, submit_pc, entry, upload_key, invocations, job_id, dishes,
                   extraction_method, poolVars, sinkVars, clockVars>>

\* Mutants of AfterOcr: an OCR error is fatal, and any text is structured.
AfterOcrFatal(out, line_count) ==
    IF out = "ocr_error" THEN "except"
    ELSE IF out = "text" /\ line_count >= MIN_OCR_LINES THEN "llm" ELSE "vision"

AfterOcrNoThreshold(out, line_count) ==
    IF out = "text" /\ line_count >= 1 THEN "llm" ELSE "vision"

\* Where _extract_dishes goes after the Textract call: the text is
\* structured when it has MIN_OCR_LINES lines, anything else is a miss.
AfterOcr(out, line_count) ==
    IF out = "text" /\ line_count >= MIN_OCR_LINES THEN "llm" ELSE "vision"

\* _extract_dishes, up to the line-count test.  An image above
\* TEXTRACT_MAX_BYTES is recompressed first, outside the try block, so an
\* error of the image library there leaves _extract_dishes; every error of
\* the Textract call (no text, or a service error) falls back to vision.
ExtractOcr ==
    /\ pc = "ocr"
    /\ LET oversized == frame.image_bytes.size > TEXTRACT_MAX_BYTES
           textract_bytes == IF oversized
                             THEN CompressForTextract(frame.image_bytes)
                             ELSE frame.image_bytes
           called == [frame EXCEPT !.textract_bytes = textract_bytes]
       IN  \E out \in {"compress_error", "no_text", "ocr_error", "text"},
              line_count \in 0 .. MaxOcrLines :
              CASE out = "compress_error" ->
                      /\ oversized
                      /\ exc' = Exc("UnidentifiedImageError",
                                    "cannot identify image file", "compress")
                      /\ pc' = "except"
                      /\ frame' = NoFrame
                [] out = "no_text" ->
                      /\ pc' = AfterOcr(out, line_count)
                      /\ exc' = exc
                      /\ frame' = [called EXCEPT !.ocr = "no_text"]
                [] out = "ocr_error" ->
                      /\ pc' = AfterOcr(out, line_count)
                      /\ exc' = exc
                      /\ frame' = [called EXCEPT !.ocr = "error"]
                [] OTHER ->
                      /\ pc' = AfterOcr(out, line_count)
                      /\ exc' = exc
                      /\ frame' = [called EXCEPT !.ocr = "text",
                                                !.line_count = line_count]
    /\ UNCHANGED <<unitVars, submit_pc, entry, upload_key, invocations, job_id, dishes,
                   extraction_method, poolVars, sinkVars, clockVars>>

\* Mutant of OcrPathReturns: whatever structure_menu returns is returned.
OcrPathReturnsAlways(ds, line_count) == TRUE

\* `if not dishes and line_count > 0:` falls back, `else: return dishes`.
OcrPathReturns(ds, line_count) == ~(ds = <<>> /\ line_count > 0)

\* _extract_dishes, structure_menu on the OCR text: a non-empty dish list is
\* returned; an empty one, or any error, falls back to vision.
ExtractStructure ==
    /\ pc = "llm"
    /\ \E out \in {"dishes", "invoke_error", "structuring_error"},
          ds \in DishLists :
          IF out = "dishes" /\ OcrPathReturns(ds, frame.line_count)
          THEN /\ dishes' = ds
               /\ extraction_method' = "textract"
               /\ pc' = "extracted"
               /\ frame' = NoFrame
          ELSE /\ pc' = "vision"
               /\ dishes' = dishes
               /\ extraction_method' = IF out = "dishes" THEN "textract"
                                       ELSE extraction_method
               /\ frame' = [frame EXCEPT !.calls =
                              Append(@, ModelCall("structure_menu", NoBytes,
                                 IF out = "dishes" THEN "no_dishes" ELSE out))]
    /\ UNCHANGED <<unitVars, submit_pc, entry, upload_key, invocations, job_id, poolVars, exc,
                   sinkVars, clockVars>>

\* Mutant of VisionInput: the copy recompressed for Textract is sent.
VisionInputRecompressed(f) == f.textract_bytes

\* The bytes handed to structure_menu_from_image.
VisionInput(f) == f.image_bytes

\* _extract_dishes, the vision fallback is called.
ExtractVisionCall ==
    /\ pc = "vision"
    /\ pc' = "vision_wait"
    /\ frame' = [frame EXCEPT !.calls =
                    Append(@, ModelCall("structure_menu_from_image",
                                        VisionInput(frame), "pending"))]
    /\ UNCHANGED <<unitVars, submit_pc, entry, upload_key, invocations, job_id, dishes,
                   extraction_method, poolVars, exc, sinkVars, clockVars>>

\* structure_menu_from_image returns or raises, and _extract_dishes with it.
ExtractVision ==
    /\ pc = "vision_wait"
    /\ frame' = NoFrame
    /\ \E out \in {"dishes", "llm_error", "structuring_error", "error"},
          ds \in DishLists, msg \in StructuringErrors :
          CASE out = "dishes" ->
                  /\ dishes' = ds
                  /\ extraction_method' = "vision"
                  /\ pc' = "extracted"
                  /\ exc' = exc
            [] out = "llm_error" ->
                  /\ exc' = Exc("LLMProcessingError",
                                "Bedrock invoke_model failed", "vision")
                  /\ pc' = "except"
                  /\ UNCHANGED <<dishes, extraction_method>>
            [] out = "structuring_error" ->
                  /\ exc' = Exc("LLMProcessingError", msg, "vision")
                  /\ pc' = "except"
                  /\ UNCHANGED <<dishes, extraction_method>>
            [] OTHER ->
                  /\ exc' = Exc("OSError", "cannot identify image file", "vision")
                  /\ pc' = "except"
                  /\ UNCHANGED <<dishes, extraction_method>>
    /\ UNCHANGED <<unitVars, submit_pc, entry, upload_key, invocations, job_id, poolVars,
                   sinkVars, clockVars>>

\* Mutant of EmptyResult: an empty extraction reported as a failed job.
EmptyResultFailed(jid) == MenuResult(jid, FAILED, <<>>, "No dishes found")

\* The JobResult for an empty dish list.
EmptyResult(jid) == MenuResult(jid, COMPLETED, <<>>, None)

HandlerPublishEmpty ==
    /\ pc = "extracted"
    /\ dishes = <<>>
    /\ \E ok \in BOOLEAN :
          IF ok
          THEN /\ StoreResults(EmptyResult(job_id))
               /\ pc' = "done"
               /\ exc' = exc
          ELSE /\ exc' = PutFailed("store_results")
               /\ pc' = "except"
               /\ UNCHANGED <<published, result_json, result_keys>>
    /\ UNCHANGED <<unitVars, submit_pc, frame, entry, upload_key, invocations, job_id, dishes,
                   extraction_method, poolVars, image_store, clockVars>>

HandlerPublishIntermediate ==
    /\ pc = "extracted"
    /\ dishes # <<>>
    /\ \E ok \in BOOLEAN :
          IF ok
          THEN /\ StoreResults(MenuResult(job_id, PROCESSING, dishes, None))
               /\ task' = SubmitAll(dishes)
               /\ pc' = "pool"
               /\ exc' = exc
          ELSE /\ exc' = PutFailed("store_results")
               /\ pc' = "except"
               /\ UNCHANGED <<published, result_json, result_keys, task>>
    /\ UNCHANGED <<unitVars, submit_pc, frame, entry, upload_key, invocations, job_id, dishes,
                   extraction_method, consumed, results, any_failed,
                   completed_count, image_store, clockVars>>

\* Mutants of IncStatus: the terminal status one outcome early, and any
\* generation failure reported as a failed job.
IncStatusEarly(count, total, failed) ==
    IF count + 1 < total THEN PROCESSING
    ELSE IF failed THEN PARTIAL ELSE COMPLETED

IncStatusFailsJob(count, total, failed) ==
    IF count < total THEN PROCESSING
    ELSE IF failed THEN FAILED ELSE COMPLETED

\* The status of the snapshot published after an outcome is consumed.
IncStatus(count, total, failed) ==
    IF count < total THEN PROCESSING
    ELSE IF failed THEN PARTIAL ELSE COMPLETED

\* Mutant of SetImageUrl: the dish records alias one object, so the
\* assignment shows in every dish.
SetImageUrlAliased(ds, idx, url) ==
    [i \in 1 .. Len(ds) |-> [ds[i] EXCEPT !.image_url = url]]

SetImageUrl(ds, idx, url) == [ds EXCEPT ![idx + 1].image_url = url]

\* Mutant of TaskResult: the index is the position in completion order.
TaskResultByCompletion(idx) ==
    [index |-> completed_count,
     image |-> IF task[idx].state = "ok" THEN ImageFor(idx) ELSE None]

\* future.result() of the task submitted for dish idx: the pair
\* (index, image_bytes) that _generate_with_retry returns.
TaskResult(idx) ==
    [index |-> idx,
     image |-> IF task[idx].state = "ok" THEN ImageFor(idx) ELSE None]

\* One iteration of `for future in as_completed(futures)`.
HandlerConsume(idx) ==
    /\ pc = "pool"
    /\ idx \in Indices \ consumed
    /\ Finished(idx)
    /\ consumed' = consumed \cup {idx}
    /\ LET res    == TaskResult(idx)
           ok     == res.image # None
           key    == ImageKey(job_id, res.index)
           url    == IF ok THEN PresignedUrl(key) ELSE PLACEHOLDER_IMAGE_URL
           ds2    == SetImageUrl(dishes, res.index, url)
           failed == any_failed \/ ~ok
           count  == completed_count + 1
           r      == MenuResult(job_id, IncStatus(count, Len(dishes), failed),
                                ds2, None)
       IN  \E image_ok \in BOOLEAN, result_ok \in BOOLEAN :
              IF ok /\ ~image_ok
              THEN \* store_image raises before anything is assigned
                   /\ exc' = PutFailed("store_image")
                   /\ pc' = "pool_exit"
                   /\ UNCHANGED <<dishes, any_failed, completed_count,
                                  sinkVars>>
              ELSE /\ image_store' = IF ok
                                     THEN PutObject(image_store, key, res.image)
                                     ELSE image_store
                   /\ dishes' = ds2
                   /\ any_failed' = failed
                   /\ completed_count' = count
                   /\ IF result_ok
                      THEN /\ StoreResults(r)
                           /\ pc' = IF count = Len(dishes) THEN "done" ELSE "pool"
                           /\ exc' = exc
                      ELSE /\ exc' = PutFailed("store_results")
                           /\ pc' = "pool_exit"
                           /\ UNCHANGED <<published, result_json, result_keys>>
    /\ UNCHANGED <<unitVars, submit_pc, frame, entry, upload_key, invocations, job_id, extraction_method,
                   task, results, clockVars>>

\* An exception leaving the `with ThreadPoolExecutor` block first waits for
\* the running tasks (shutdown(wait=True)).
HandlerPoolShutdown ==
    /\ pc = "pool_exit"
    /\ AllFinished
    /\ pc' = "except"
    /\ UNCHANGED <<unitVars, submit_pc, frame, entry, upload_key, invocations, job_id, dishes,
                   extraction_method, poolVars, exc, sinkVars, clockVars>>

PipelineErrors == {"OCRExtractionError", "LLMProcessingError"}

\* Mutants of ErrorResult: the cause is dropped, and the error reported
\* under status partial.
ErrorResultNoMessage(jid, msg) == MenuResult(jid, FAILED, <<>>, None)

ErrorResultAsPartial(jid, msg) == MenuResult(jid, PARTIAL, <<>>, msg)

ErrorResult(jid, msg) == MenuResult(jid, FAILED, <<>>, msg)

\* except (OCRExtractionError, LLMProcessingError) as exc
HandlerExceptPipeline ==
    /\ pc = "except"
    /\ exc.type \in PipelineErrors
    /\ \E ok \in BOOLEAN :
          IF ok
          THEN /\ StoreResults(ErrorResult(job_id, exc.msg))
               /\ pc' = "done"
          ELSE /\ pc' = "raised"
               /\ UNCHANGED <<published, result_json, result_keys>>
    /\ UNCHANGED <<unitVars, submit_pc, frame, entry, upload_key, invocations, job_id, dishes,
                   extraction_method, poolVars, exc, image_store, clockVars>>

\* except Exception as exc
HandlerExceptUnexpected ==
    /\ pc = "except"
    /\ exc.type \notin PipelineErrors
    /\ \E ok \in BOOLEAN :
          IF ok
          THEN /\ StoreResults(ErrorResult(job_id, "Processing failed: " \o exc.msg))
               /\ pc' = "done"
          ELSE /\ pc' = "raised"
               /\ UNCHANGED <<published, result_json, result_keys>>
    /\ UNCHANGED <<unitVars, submit_pc, frame, entry, upload_key, invocations, job_id, dishes,
                   extraction_method, poolVars, exc, image_store, clockVars>>

HandlerNext ==
    \/ Submit
    \/ SubmitStore
    \/ S3Event
    \/ HandlerReadImage
    \/ ExtractOcr
    \/ ExtractStructure
    \/ ExtractVisionCall
    \/ ExtractVision
    \/ HandlerPublishEmpty
    \/ HandlerPublishIntermediate
    \/ \E idx \in 0 .. (MaxDishes - 1) : HandlerConsume(idx)
    \/ HandlerPoolShutdown
    \/ HandlerExceptPipeline
    \/ HandlerExceptUnexpected

\* ------------------------------------------------------------- run_pipeline
\* menu_vision/pipeline.py.  generate_all_dish_images is the pool of
\* backend/image_gen.py: outcomes are appended as tasks complete and the
\* list is sorted by index before it is returned.
Return(r) ==
    /\ returned' = r
    /\ pc' = "rp_returned"

PipelineJobId == "uuid-1"

PipelineRead ==
    /\ pc = "rp_start"
    /\ job_id' = PipelineJobId
    /\ \E src \in {"bytes", "path", "unreadable_path", "nothing"} :
          CASE src = "nothing" ->
                  Return(ErrorResult(PipelineJobId,
                         "Either image_path or image_bytes must be provided"))
            [] src = "unreadable_path" ->
                  Return(ErrorResult(PipelineJobId,
                         "Failed to read image file: " \o "No such file"))
            [] OTHER ->
                  pc' = "rp_ocr" /\ returned' = returned
    /\ UNCHANGED <<unitVars, submit_pc, frame, entry, upload_key, invocations, dishes, extraction_method,
                   poolVars, exc, sinkVars, timeout_threshold, elapsed,
                   timed_out>>

\* extract_text raises OCRExtractionError when no LINE block is returned and
\* lets every error of the Textract client through.
PipelineOcr ==
    /\ pc = "rp_ocr"
    /\ \E out \in {"text", "no_text", "client_error"} :
          CASE out = "text" ->
                  pc' = "rp_llm" /\ UNCHANGED <<returned, exc>>
            [] out = "no_text" ->
                  /\ Return(ErrorResult(job_id, "OCR extraction failed: "
                               \o "No text detected in the uploaded image"))
                  /\ exc' = exc
            [] OTHER ->
                  /\ exc' = Exc("ClientError", "detect_document_text failed",
                                "extract_text")
                  /\ pc' = "rp_raised"
                  /\ returned' = returned
    /\ UNCHANGED <<unitVars, submit_pc, frame, entry, upload_key, invocations, job_id, dishes,
                   extraction_method, poolVars, sinkVars, timeout_threshold,
                   elapsed, timed_out>>

PipelineStructure ==
    /\ pc = "rp_llm"
    /\ \E ds \in DishLists,
          raised \in {None, "Bedrock invoke_model failed"} \cup StructuringErrors :
          IF raised # None
          THEN /\ Return(ErrorResult(job_id, "LLM processing failed: " \o raised))
               /\ dishes' = dishes
          ELSE IF ds = <<>>
          THEN /\ Return(EmptyResult(job_id))
               /\ dishes' = dishes
          ELSE /\ dishes' = ds
               /\ pc' = "rp_check1"
               /\ returned' = returned
    /\ UNCHANGED <<unitVars, submit_pc, frame, entry, upload_key, invocations, job_id, extraction_method,
                   poolVars, exc, sinkVars, timeout_threshold, elapsed,
                   timed_out>>

\* Mutant of AllPlaceholder: the dishes are returned as extracted.
AllPlaceholderSkipped(ds) == ds

AllPlaceholder(ds) ==
    [i \in 1 .. Len(ds) |-> [ds[i] EXCEPT !.image_url = PLACEHOLDER_IMAGE_URL]]

TimeoutMessage == "Timeout reached before image generation could start"

\* The checkpoint before image generation.
PipelineCheckTimeout ==
    /\ pc = "rp_check1"
    /\ \E now \in elapsed .. MaxClock :
          /\ elapsed' = now
          /\ IF now >= timeout_threshold
             THEN /\ dishes' = AllPlaceholder(dishes)
                  /\ timed_out' = TRUE
                  /\ Return(MenuResult(job_id, PARTIAL, AllPlaceholder(dishes),
                                       TimeoutMessage))
                  /\ task' = task
             ELSE /\ task' = SubmitAll(dishes)
                  /\ pc' = "rp_pool"
                  /\ UNCHANGED <<dishes, timed_out, returned>>
    /\ UNCHANGED <<unitVars, submit_pc, frame, entry, upload_key, invocations, job_id, extraction_method,
                   consumed, results, any_failed, completed_count, exc,
                   sinkVars, timeout_threshold>>

\* generate_all_dish_images: results.append(future.result())
GenerateAllCollect(idx) ==
    /\ pc = "rp_pool"
    /\ idx \in Indices \ consumed
    /\ Finished(idx)
    /\ consumed' = consumed \cup {idx}
    /\ results' = Append(results, [index |-> idx,
                                   image |-> task[idx].state = "ok"])
    /\ UNCHANGED <<unitVars, submit_pc, frame, entry, pc, upload_key, invocations, job_id, dishes,
                   extraction_method, task, any_failed, completed_count, exc,
                   sinkVars, clockVars>>

\* Mutant of SortByIndex: the outcomes are returned in completion order.
SortByIndexSkipped(rs) == rs

\* results.sort(key=lambda r: r[0]), as an insertion sort on the index.
RECURSIVE InsertByIndex(_, _)
InsertByIndex(sorted, r) ==
    IF sorted = <<>> THEN <<r>>
    ELSE IF r.index < Head(sorted).index THEN <<r>> \o sorted
    ELSE <<Head(sorted)>> \o InsertByIndex(Tail(sorted), r)

RECURSIVE SortByIndex(_)
SortByIndex(rs) ==
    IF rs = <<>> THEN <<>>
    ELSE InsertByIndex(SortByIndex(SubSeq(rs, 1, Len(rs) - 1)), rs[Len(rs)])

\* for idx, img_bytes in image_results: ...
RECURSIVE AssignImages(_, _)
AssignImages(ds, rs) ==
    IF rs = <<>> THEN ds
    ELSE AssignImages(
            SetImageUrl(ds, Head(rs).index,
                        IF Head(rs).image THEN GeneratedUrl(Head(rs).index)
                        ELSE PLACEHOLDER_IMAGE_URL),
            Tail(rs))

\* Mutant of AnyFailed: failures are not recorded.
AnyFailedForgotten(rs) == FALSE

AnyFailed(rs) == \E i \in 1 .. Len(rs) : ~rs[i].image

PipelineAssign ==
    /\ pc = "rp_pool"
    /\ consumed = Indices
    /\ LET image_results == SortByIndex(results)
       IN  /\ dishes' = AssignImages(dishes, image_results)
           /\ any_failed' = AnyFailed(image_results)
    /\ pc' = "rp_check2"
    /\ UNCHANGED <<unitVars, submit_pc, frame, entry, upload_key, invocations, job_id, extraction_method,
                   task, consumed, results, completed_count, exc, sinkVars,
                   clockVars>>

\* Mutant of PipelineStatus: the timeout is forgotten.
PipelineStatusNoTimeout(timeout, failed) ==
    IF failed THEN PARTIAL ELSE COMPLETED

PipelineStatus(timeout, failed) ==
    IF timeout \/ failed THEN PARTIAL ELSE COMPLETED

\* Mutant of PipelineResult: the overrun is recorded in error_message.
PipelineResultWithOverrun(jid, st, ds) ==
    MenuResult(jid, st, ds, "Timeout reached after image generation")

\* The MenuResult returned after image generation: no error_message.
PipelineResult(jid, st, ds) == MenuResult(jid, st, ds, None)

\* The checkpoint after image generation.
PipelineFinish ==
    /\ pc = "rp_check2"
    /\ \E now \in elapsed .. MaxClock :
          /\ elapsed' = now
          /\ timed_out' = (now >= timeout_threshold)
          /\ Return(PipelineResult(job_id,
                                   PipelineStatus(now >= timeout_threshold,
                                                  any_failed),
                                   dishes))
    /\ UNCHANGED <<unitVars, submit_pc, frame, entry, upload_key, invocations, job_id, dishes,
                   extraction_method, poolVars, exc, sinkVars,
                   timeout_threshold>>

PipelineNext ==
    \/ PipelineRead
    \/ PipelineOcr
    \/ PipelineStructure
    \/ PipelineCheckTimeout
    \/ \E idx \in 0 .. (MaxDishes - 1) : GenerateAllCollect(idx)
    \/ PipelineAssign
    \/ PipelineFinish

Next ==
    \/ HandlerNext
    \/ PipelineNext
    \/ \E idx \in 0 .. (MaxDishes - 1) : WorkerAttempt(idx)

Spec == Init /\ [][Next]_vars

\* Every external call eventually returns or raises, and every thread that
\* can take a step is scheduled: some enabled step is eventually taken.
SpecLive == Init /\ [][Next]_vars /\ WF_vars(Next)

\* A second S3 event for the same intake key (S3 notifications are delivered
\* at least once; the signed upload URL stays valid for 900 s): the handler
\* runs again from the top with fresh locals, against the same sink.
Redeliver ==
    /\ entry = "handler"
    /\ pc \in {"done", "raised"}
    /\ invocations < MaxInvocations
    /\ invocations' = invocations + 1
    /\ job_id' = JobIdOfKey(upload_key)
    /\ pc' = "s3_read"
    /\ dishes' = <<>>
    /\ extraction_method' = None
    /\ task' = NoTasks
    /\ consumed' = {}
    /\ any_failed' = FALSE
    /\ completed_count' = 0
    /\ exc' = NoExc
    /\ published' = <<>>
    /\ UNCHANGED <<unitVars, submit_pc, frame, entry, upload_key, results, result_json, image_store,
                   result_keys,
                   clockVars>>

NextRedelivery == Next \/ Redeliver

SpecRedelivery == Init /\ [][NextRedelivery]_vars


\* ------------------------------------------------------ parse_llm_response
\* backend/llm.py.
\* ---- json.dumps, for the texts the model hands to the parser
RECURSIVE Flatten(_)
Flatten(ss) == IF ss = <<>> THEN <<>> ELSE Head(ss) \o Flatten(Tail(ss))

RECURSIVE JoinWith(_, _)
JoinWith(ss, sep) ==
    IF ss = <<>> THEN <<>>
    ELSE IF Len(ss) = 1 THEN ss[1]
    ELSE ss[1] \o sep \o JoinWith(Tail(ss), sep)

EscapeChar(c) == IF c \in {Q, BS} THEN <<BS, c>> ELSE <<c>>
Quoted(chars) ==
    <<Q>> \o Flatten([i \in 1 .. Len(chars) |-> EscapeChar(chars[i])]) \o <<Q>>

RECURSIVE SerializeValue(_)
SerializeValue(v) ==
    CASE v.t = "null" -> <<"n", "u", "l", "l">>
      [] v.t = "str" -> Quoted(v.s)
      [] v.t = "num" -> v.s
      [] v.t = "bool" -> <<"t", "r", "u", "e">>
      [] v.t = "obj" -> <<"{", "}">>
      [] OTHER ->
            <<"[">> \o JoinWith([i \in 1 .. Len(v.items) |->
                                    SerializeValue(v.items[i])], <<",">>)
                    \o <<"]">>

SerializeEntry(e) ==
    IF e.kind = "string" THEN Quoted(<<"s">>)
    ELSE IF e.kind = "number" THEN <<"7">>
    ELSE LET present == SelectSeq(Keys, LAMBDA k : e.fields[k].t # "absent")
         IN  <<"{">> \o JoinWith([i \in 1 .. Len(present) |->
                          Quoted(<<present[i]>>) \o <<":">>
                              \o SerializeValue(e.fields[present[i]])], <<",">>)
                     \o <<"}">>

SerializeArray(items) ==
    <<"[">> \o JoinWith([i \in 1 .. Len(items) |-> SerializeEntry(items[i])],
                        <<",">>)
            \o <<"]">>

Serialize(value) ==
    IF value.t = "list" THEN SerializeArray(value.items) ELSE <<"{", "}">>

\* The markdown fence; Tick stands for the backquote character.
Tick == "^"
FenceOpen == <<Tick, Tick, Tick, "j", "s", "o", "n", "\n">>
FenceClose == <<"\n", Tick, Tick, Tick>>

FullText(r) ==
    IF r.fenced THEN FenceOpen \o Serialize(r.value) \o FenceClose
    ELSE Serialize(r.value)

ResponseText(r) ==
    IF r.cut = -1 THEN FullText(r) ELSE SubSeq(FullText(r), 1, r.cut)

\* str.rstrip, str.lstrip and str.strip
RECURSIVE RStripChars(_, _)
RStripChars(text, chars) ==
    IF text # <<>> /\ text[Len(text)] \in chars
    THEN RStripChars(SubSeq(text, 1, Len(text) - 1), chars)
    ELSE text

RECURSIVE LStrip(_)
LStrip(chars) ==
    IF chars # <<>> /\ Head(chars) \in Whitespace THEN LStrip(Tail(chars))
    ELSE chars

Strip(chars) == RStripChars(LStrip(chars), Whitespace)

\* ---- the parser
JSONDecodeError == [t |-> "JSONDecodeError", items |-> <<>>]

\* The re.search for a fenced block: the text between an opening fence and
\* the next closing fence, if there are both.
CodeBlock(text) ==
    IF /\ Len(text) >= Len(FenceOpen) + Len(FenceClose)
       /\ SubSeq(text, 1, Len(FenceOpen)) = FenceOpen
       /\ SubSeq(text, Len(text) - Len(FenceClose) + 1, Len(text)) = FenceClose
    THEN Strip(SubSeq(text, Len(FenceOpen) + 1, Len(text) - Len(FenceClose)))
    ELSE text

\* json.loads on a text made from response r: the text of the whole value
\* decodes to the value, the text of an array of its leading entries decodes
\* to those entries, and any other text is not JSON.
JsonLoads(text, r) ==
    IF text = Serialize(r.value) THEN r.value
    ELSE LET ks == {k \in 0 .. Len(r.value.items) :
                      text = SerializeArray(SubSeq(r.value.items, 1, k))}
         IN  IF ks = {} THEN JSONDecodeError
             ELSE TopList(SubSeq(r.value.items, 1, CHOOSE k \in ks : TRUE))

\* Mutant of ScanStep: quotes are not tracked, every brace counts.
ScanStepNoStrings(st, ch, i) ==
    IF ch = "{" THEN [st EXCEPT !.depth = @ + 1]
    ELSE IF ch = "}"
    THEN [st EXCEPT !.depth = @ - 1,
                    !.last_complete = IF st.depth - 1 = 0 THEN i
                                      ELSE st.last_complete]
    ELSE st

\* _recover_truncated_json, one iteration of the scan; i is the 0-based
\* offset of ch.
ScanStep(st, ch, i) ==
    IF st.escape_next THEN [st EXCEPT !.escape_next = FALSE]
    ELSE IF ch = BS /\ st.in_string THEN [st EXCEPT !.escape_next = TRUE]
    ELSE IF ch = Q THEN [st EXCEPT !.in_string = ~st.in_string]
    ELSE IF st.in_string THEN st
    ELSE IF ch = "{" THEN [st EXCEPT !.depth = @ + 1]
    ELSE IF ch = "}"
    THEN [st EXCEPT !.depth = @ - 1,
                    !.last_complete = IF st.depth - 1 = 0 THEN i
                                      ELSE st.last_complete]
    ELSE st

\* The scan of text[lo .. hi] from state st, folded by halves; the state is
\* read on entry so that it is computed before the range is scanned.
RECURSIVE ScanRange(_, _, _, _)
ScanRange(text, lo, hi, st) ==
    IF st.depth = st.depth /\ lo > hi THEN st
    ELSE IF lo = hi THEN ScanStep(st, text[lo], lo - 1)
    ELSE LET mid == (lo + hi) \div 2
         IN  ScanRange(text, mid + 1, hi, ScanRange(text, lo, mid, st))

\* `for i, ch in enumerate(text)`, from the n-th character on.
Scan(text, n, st) == ScanRange(text, n, Len(text), st)

ScanStart ==
    [depth |-> 0, last_complete |-> -1, in_string |-> FALSE,
     escape_next |-> FALSE]

\* str.find('['), 0-based, -1 when absent.
Find(text, ch) ==
    LET at == {i \in 1 .. Len(text) : text[i] = ch}
    IN  IF at = {} THEN -1
        ELSE (CHOOSE i \in at : \A j \in at : i <= j) - 1

RecoverTruncatedJson(text, r) ==
    LET last_complete == Scan(text, 1, ScanStart).last_complete
        truncated == RStripChars(RStripChars(SubSeq(text, 1, last_complete + 1),
                                             Whitespace), {","})
                        \o <<"]">>
        bracket_pos == Find(truncated, "[")
        data == JsonLoads(SubSeq(truncated, bracket_pos + 1, Len(truncated)), r)
    IN  IF last_complete <= 0 THEN JSONDecodeError
        ELSE IF bracket_pos = -1 THEN JSONDecodeError
        ELSE IF data.t = "list" THEN data
        ELSE JSONDecodeError

NoneStr == [present |-> FALSE, s |-> <<>>]
Some(chars) == [present |-> TRUE, s |-> chars]

\* Mutant of NullableStr: a default is made up for a null.
NullableStrDefault(v) ==
    IF v.t = "null" THEN Some(<<"N", "/", "A">>)
    ELSE IF v.t # "str" THEN Some(v.s)
    ELSE IF Strip(v.s) = <<>> THEN NoneStr ELSE Some(Strip(v.s))

\* _nullable_str
NullableStr(v) ==
    IF v.t = "null" THEN NoneStr
    ELSE IF v.t # "str" THEN Some(v.s)
    ELSE IF Strip(v.s) = <<>> THEN NoneStr ELSE Some(Strip(v.s))

\* item.get(key)
Get(e, key) == IF e.fields[key].t = "absent" THEN JNull ELSE e.fields[key]

\* Mutant of Ingredients: null entries are rendered, not dropped.
IngredientsKeepNull(v) ==
    IF v.t = "list"
    THEN [k \in 1 .. Len(v.items) |->
            IF v.items[k].t = "null" THEN <<"N", "o", "n", "e">>
            ELSE v.items[k].s]
    ELSE <<>>

\* [str(i) for i in raw_ingredients if i is not None], or [] for a non-list.
Ingredients(v) ==
    IF v.t = "list"
    THEN LET kept == SelectSeq(v.items, LAMBDA i : i.t # "null")
         IN  [k \in 1 .. Len(kept) |-> kept[k].s]
    ELSE <<>>

\* `if not original_name or not isinstance(original_name, str): continue`
ValidName(e) ==
    /\ e.kind = "object"
    /\ Get(e, "original_name").t = "str"
    /\ Get(e, "original_name").s # <<>>

ParsedDish(e) ==
    [original_name |-> Strip(Get(e, "original_name").s),
     translated_name |-> NullableStr(Get(e, "translated_name")),
     description |-> NullableStr(Get(e, "description")),
     ingredients |-> Ingredients(Get(e, "ingredients")),
     price |-> NullableStr(Get(e, "price"))]

ParseItems(items) ==
    LET kept == SelectSeq(items, ValidName)
    IN  [k \in 1 .. Len(kept) |-> ParsedDish(kept[k])]

ParseFailed ==
    "Failed to parse LLM response as JSON and could not recover partial array"
NotAnArray == "Expected JSON array from LLM, got dict"

ParseLlmResponse(r) ==
    LET text == CodeBlock(Strip(ResponseText(r)))
        loaded == JsonLoads(text, r)
        data == IF loaded = JSONDecodeError
                THEN RecoverTruncatedJson(text, r) ELSE loaded
    IN  IF data = JSONDecodeError THEN Raised(ParseFailed)
        ELSE IF data.t # "list" THEN Raised(NotAnArray)
        ELSE Parsed(ParseItems(data.items))

\* ---- the responses handed to the parser
Strings ==
    {<<>>, <<" ">>, <<"x">>, <<" ", "x", "y", " ">>}
Scalars ==
    {JAbsent, JNull, JNum, JBool, JObj, JList(<<>>)} \cup {JStr(c) : c \in Strings}
FewScalars == {JNull, JNum, JStr(<<" ", "x", " ">>), JStr(<<" ">>)}
IngredientValues ==
    {JAbsent, JNull, JStr(<<"x">>), JObj, JList(<<>>), JList(<<JStr(<<"x">>)>>),
     JList(<<JNull, JStr(<<"x">>), JNull>>), JList(<<JStr(<<>>), JStr(<<"y">>)>>),
     JList(<<JNum, JStr(<<"x">>)>>)}
GoodName == JStr(<<"A">>)

Entries ==
    {NonObject("string"), NonObject("number")}
      \cup {Entry(n, JAbsent, JAbsent, JAbsent, JAbsent) : n \in Scalars}
      \cup {Entry(GoodName, v, JAbsent, JAbsent, JAbsent) : v \in Scalars}
      \cup {Entry(GoodName, JAbsent, v, JAbsent, JAbsent) : v \in FewScalars}
      \cup {Entry(GoodName, JAbsent, JAbsent, JAbsent, v) : v \in FewScalars}
      \cup {Entry(GoodName, JAbsent, JAbsent, v, JAbsent) : v \in IngredientValues}

\* Dish objects whose text has braces, quotes and backslashes inside string
\* literals, and nested objects and lists.
TrickyObjects ==
    {Entry(JStr(<<"A">>), JAbsent, JAbsent, JAbsent, JAbsent),
     Entry(JStr(<<"}", "{">>), JAbsent, JAbsent, JAbsent, JAbsent),
     Entry(JStr(<<Q, "}", BS>>), JNull, JAbsent, JAbsent, JAbsent),
     Entry(JStr(<<"B">>), JAbsent, JAbsent, JList(<<JStr(<<"x">>)>>), JObj)}

RECURSIVE ArraysUpTo(_, _)
ArraysUpTo(es, n) ==
    IF n = 0 THEN {<<>>}
    ELSE LET shorter == ArraysUpTo(es, n - 1)
         IN  shorter \cup {Append(a, e) : a \in {b \in shorter : Len(b) = n - 1},
                                          e \in es}

WholeResponses ==
    {Response(TopList(a), FALSE, -1) : a \in ArraysUpTo(Entries, MaxEntries)}
      \cup {Response(TopDict, f, -1) : f \in BOOLEAN}
      \cup {Response(TopList(a), TRUE, -1) : a \in ArraysUpTo(TrickyObjects, MaxEntries)}

CutResponses ==
    UNION {{Response(TopList(a), f, cut) :
                cut \in 0 .. (Len(FullText(Response(TopList(a), f, -1))) - 1)} :
           a \in ArraysUpTo(TrickyObjects, MaxEntries), f \in BOOLEAN}

Responses == WholeResponses \cup CutResponses

InitParser ==
    /\ entry = "parse_llm_response"
    /\ pc = "parse"
    /\ upload_key = NoKey
    /\ submit_pc = "start"
    /\ invocations = 0
    /\ job_id = None
    /\ dishes = <<>>
    /\ extraction_method = None
    /\ frame = NoFrame
    /\ task = NoTasks
    /\ consumed = {}
    /\ results = <<>>
    /\ any_failed = FALSE
    /\ completed_count = 0
    /\ exc = NoExc
    /\ published = <<>>
    /\ result_json = NoResult
    /\ image_store = {}
    /\ result_keys = {}
    /\ timeout_threshold = 0
    /\ elapsed = 0
    /\ timed_out = FALSE
    /\ returned = NoResult
    /\ response \in Responses
    /\ parsed = NotParsed
    /\ roundtrip = NoRoundTrip
    /\ status_call = NoStatusCall
    /\ run_a = NoRun
    /\ run_b = NoRun

Parse ==
    /\ pc = "parse"
    /\ parsed' = ParseLlmResponse(response)
    /\ pc' = "parsed"
    /\ UNCHANGED <<response, roundtrip, status_call, run_a, run_b, frame, entry, submit_pc, upload_key, invocations, job_id, dishes,
                   extraction_method, poolVars, exc, sinkVars, clockVars>>

SpecParser == InitParser /\ [][Parse]_vars


\* ------------------------------------------------- to_json and from_json
\* menu_vision/models.py.  A field of type Optional[str] holds None
\* (NoneStr) or a string (Some of its characters); the dict of to_json holds
\* a JSON null or a JSON string there.
FullDish(name, translated, description, ingredients, price, url) ==
    [kind |-> "DishRecord", original_name |-> name,
     translated_name |-> translated, description |-> description,
     ingredients |-> ingredients, price |-> price, image_url |-> url]

FullResult(jid, st, lang, ds, msg) ==
    [kind |-> "MenuResult", job_id |-> jid, status |-> st,
     source_language |-> lang, dishes |-> ds, error_message |-> msg]

\* A Python value of type Optional[str] as the value json sees.
ToOpt(v) == IF v.present THEN JStr(v.s) ELSE JNull

\* Mutant of FromOpt: a null comes back as the empty string.
FromOptEmpty(j) == IF j.t = "null" THEN Some(<<>>) ELSE Some(j.s)

\* data.get(key) read back into an Optional[str] field.
FromOpt(j) == IF j.t = "null" THEN NoneStr ELSE Some(j.s)

\* DishRecord.to_json
DishToJson(d) ==
    [kind |-> "dict",
     original_name |-> JStr(d.original_name),
     translated_name |-> ToOpt(d.translated_name),
     description |-> ToOpt(d.description),
     ingredients |-> JList([i \in 1 .. Len(d.ingredients) |->
                              JStr(d.ingredients[i])]),
     price |-> ToOpt(d.price),
     image_url |-> ToOpt(d.image_url)]

\* DishRecord.from_json
DishFromJson(data) ==
    FullDish(data.original_name.s,
             FromOpt(data.translated_name),
             FromOpt(data.description),
             [i \in 1 .. Len(data.ingredients.items) |->
                data.ingredients.items[i].s],
             FromOpt(data.price),
             FromOpt(data.image_url))

\* JobStatus(value): the member with that value.
JobStatusOf(j) == CHOOSE st \in JobStatus : JStr(st) = j

\* MenuResult.to_json
ResultToJson(r) ==
    [kind |-> "dict",
     job_id |-> JStr(r.job_id),
     status |-> JStr(r.status),
     source_language |-> ToOpt(r.source_language),
     dishes |-> [i \in 1 .. Len(r.dishes) |-> DishToJson(r.dishes[i])],
     error_message |-> ToOpt(r.error_message)]

\* MenuResult.from_json
ResultFromJson(data) ==
    FullResult(data.job_id.s,
               JobStatusOf(data.status),
               FromOpt(data.source_language),
               [i \in 1 .. Len(data.dishes) |-> DishFromJson(data.dishes[i])],
               FromOpt(data.error_message))

ToJson(x) == IF x.kind = "DishRecord" THEN DishToJson(x) ELSE ResultToJson(x)
FromJson(kind, data) ==
    IF kind = "DishRecord" THEN DishFromJson(data) ELSE ResultFromJson(data)

\* ---- the values round-tripped
OptStrings == {NoneStr, Some(<<>>), Some(<<"x">>)}
IngredientLists == {<<>>, <<(<<"i">>)>>, <<(<<"i">>), (<<>>)>>}

DishValues ==
    {FullDish(n, t, d, g, p, u) :
        n \in {<<>>, <<"A">>}, t \in OptStrings, d \in {NoneStr, Some(<<"d">>)},
        g \in IngredientLists, p \in {NoneStr, Some(<<"9">>)},
        u \in OptStrings}

\* The dishes put into MenuResults: all absent, all populated, and mixed.
FewDishes ==
    {FullDish(<<"A">>, NoneStr, NoneStr, <<>>, NoneStr, NoneStr),
     FullDish(<<"B">>, Some(<<"b">>), Some(<<"d">>), <<(<<"i">>), (<<"j">>)>>,
              Some(<<"9">>), Some(<<"u">>)),
     FullDish(<<>>, Some(<<>>), NoneStr, <<(<<>>)>>, NoneStr, Some(<<"p">>))}

ResultValues ==
    {FullResult(j, st, l, ds, m) :
        j \in {"job-1"}, st \in JobStatus, l \in {NoneStr, Some(<<"f", "r">>)},
        ds \in ArraysUpTo(FewDishes, MaxEntries), m \in OptStrings}

InitModels ==
    /\ entry = "models"
    /\ pc = "to_json"
    /\ upload_key = NoKey
    /\ submit_pc = "start"
    /\ invocations = 0
    /\ job_id = None
    /\ dishes = <<>>
    /\ extraction_method = None
    /\ frame = NoFrame
    /\ task = NoTasks
    /\ consumed = {}
    /\ results = <<>>
    /\ any_failed = FALSE
    /\ completed_count = 0
    /\ exc = NoExc
    /\ published = <<>>
    /\ result_json = NoResult
    /\ image_store = {}
    /\ result_keys = {}
    /\ timeout_threshold = 0
    /\ elapsed = 0
    /\ timed_out = FALSE
    /\ returned = NoResult
    /\ response = NoResponse
    /\ parsed = NotParsed
    /\ \E x \in DishValues \cup ResultValues :
          roundtrip = [NoRoundTrip EXCEPT !.value = x]
    /\ status_call = NoStatusCall
    /\ run_a = NoRun
    /\ run_b = NoRun

Serialize_to_json ==
    /\ pc = "to_json"
    /\ roundtrip' = [roundtrip EXCEPT !.wire = ToJson(roundtrip.value)]
    /\ pc' = "from_json"
    /\ UNCHANGED <<parserVars, status_call, run_a, run_b, frame, entry, submit_pc,
                   upload_key, invocations, job_id, dishes, extraction_method,
                   poolVars, exc, sinkVars, clockVars>>

Deserialize_from_json ==
    /\ pc = "from_json"
    /\ roundtrip' = [roundtrip EXCEPT
                        !.back = FromJson(roundtrip.value.kind, roundtrip.wire)]
    /\ pc' = "round_tripped"
    /\ UNCHANGED <<parserVars, status_call, run_a, run_b, frame, entry, submit_pc,
                   upload_key, invocations, job_id, dishes, extraction_method,
                   poolVars, exc, sinkVars, clockVars>>

NextModels == Serialize_to_json \/ Deserialize_from_json

SpecModels == InitModels /\ [][NextModels]_vars


\* ------------------------------------------- get_results and status Lambda
\* backend/storage.py and menu_vision/handlers/status.py.
Missing == [kind |-> "missing"]
Corrupt == [kind |-> "not json"]

\* What s3_client.get_object can do: return the object, or raise a
\* ClientError with one of these codes, or an error that is no ClientError.
ClientErrorCodes == {"NoSuchKey", "404", "AccessDenied", "InternalError", ""}
OtherErrors == {"EndpointConnectionError"}

\* Mutant of IsMissingCode: every ClientError counts as a missing key.
IsMissingCodeAny(code) == code \in ClientErrorCodes

\* `error_code in ("NoSuchKey", "404")`
IsMissingCode(code) == code \in {"NoSuchKey", "404"}

\* get_results, given the object under the key and the error get_object
\* raised (None: it returned the object).
GetResults(stored, error) ==
    IF error = None
    THEN IF stored = Corrupt
         THEN [fetched |-> "raised", result |-> NoWire,
               error |-> "JSONDecodeError"]
         ELSE [fetched |-> "result", result |-> ResultFromJson(stored),
               error |-> None]
    ELSE IF error \in ClientErrorCodes /\ IsMissingCode(error)
    THEN [fetched |-> "None", result |-> NoWire, error |-> error]
    ELSE [fetched |-> "raised", result |-> NoWire, error |-> error]

\* Mutant of StatusResponse: an error is reported as a missing job.
StatusResponseHidesErrors(got) ==
    IF got.fetched = "result"
    THEN [statusCode |-> 200, body |-> ResultToJson(got.result)]
    ELSE [statusCode |-> 404, body |-> [kind |-> "error", error |-> "Job not found"]]

\* The response of the status handler for what get_results did.
StatusResponse(got) ==
    IF got.fetched = "None"
    THEN [statusCode |-> 404, body |-> [kind |-> "error", error |-> "Job not found"]]
    ELSE IF got.fetched = "result"
    THEN [statusCode |-> 200, body |-> ResultToJson(got.result)]
    ELSE [statusCode |-> 500, body |-> [kind |-> "error", error |-> got.error]]

StoredObjects ==
    {Missing, Corrupt} \cup {ResultToJson(r) : r \in ResultValues}

InitStatus ==
    /\ entry = "status"
    /\ pc = "status"
    /\ upload_key = NoKey
    /\ submit_pc = "start"
    /\ invocations = 0
    /\ job_id = None
    /\ dishes = <<>>
    /\ extraction_method = None
    /\ frame = NoFrame
    /\ task = NoTasks
    /\ consumed = {}
    /\ results = <<>>
    /\ any_failed = FALSE
    /\ completed_count = 0
    /\ exc = NoExc
    /\ published = <<>>
    /\ result_json = NoResult
    /\ image_store = {}
    /\ result_keys = {}
    /\ timeout_threshold = 0
    /\ elapsed = 0
    /\ timed_out = FALSE
    /\ returned = NoResult
    /\ response = NoResponse
    /\ parsed = NotParsed
    /\ roundtrip = NoRoundTrip
    /\ \E ok \in BOOLEAN, obj \in StoredObjects :
          status_call = [NoStatusCall EXCEPT !.event_ok = ok, !.stored = obj]
    /\ run_a = NoRun
    /\ run_b = NoRun

\* The handler up to the return of get_results: a malformed event raises
\* KeyError before any S3 call; get_object returns the object if there is
\* one, and can raise whether there is one or not.
StatusGetResults ==
    /\ pc = "status"
    /\ pc' = "status_got"
    /\ IF ~status_call.event_ok
       THEN status_call' = [status_call EXCEPT !.fetched = "raised",
                                               !.error = "KeyError"]
       ELSE \E error \in (ClientErrorCodes \cup OtherErrors \cup {None}) :
               /\ error = None => status_call.stored # Missing
               /\ IsMissingCode(error) => status_call.stored = Missing
               /\ LET got == GetResults(status_call.stored, error)
                  IN  status_call' =
                         [status_call EXCEPT !.fetched = got.fetched,
                                             !.result = got.result,
                                             !.error = IF error = None
                                                       THEN got.error
                                                       ELSE error]
    /\ UNCHANGED <<parserVars, roundtrip, run_a, run_b, frame, entry, submit_pc,
                   upload_key, invocations, job_id, dishes, extraction_method,
                   poolVars, exc, sinkVars, clockVars>>

StatusRespond ==
    /\ pc = "status_got"
    /\ pc' = "status_returned"
    /\ LET resp == StatusResponse(status_call)
       IN  status_call' = [status_call EXCEPT !.statusCode = resp.statusCode,
                                              !.body = resp.body]
    /\ UNCHANGED <<parserVars, roundtrip, run_a, run_b, frame, entry, submit_pc,
                   upload_key, invocations, job_id, dishes, extraction_method,
                   poolVars, exc, sinkVars, clockVars>>

NextStatus == StatusGetResults \/ StatusRespond

SpecStatus == InitStatus /\ [][NextStatus]_vars


\* ======================================================================
\* The process handler run twice: timing diagnostics and control flow
\* ======================================================================
\* A run of the handler is a function of the responses of the services it
\* calls, of the order in which the futures complete, and of the readings of
\* time.time().  run_a is the run in which every measured duration is 0;
\* run_b takes the same responses with arbitrary durations.  Every run being
\* compared with the same run_a, two runs with any two series of readings
\* are compared with each other.

\* A key the timings dict does not hold.
Absent == -1

\* timings as the handler and _extract_dishes fill it.
NoTimings ==
    [s3_read |-> Absent, ocr |-> Absent, llm |-> Absent,
     vision_extract |-> Absent, image |-> NoTasks,
     image_gen_total |-> Absent, total |-> Absent,
     extraction_method |-> None]

\* timings.get(key, 0)
TimingGet(v) == IF v = Absent THEN 0 ELSE v

\* sum(v for v in timings.values() if isinstance(v, float)), where no
\* dishes were found: the float entries are those of the read and of the
\* extraction; extraction_method is a string and is left out.
SumFloats(t) ==
    TimingGet(t.s3_read) + TimingGet(t.ocr) + TimingGet(t.llm)
        + TimingGet(t.vision_extract)

\* timings["s3_read"] + extract_time + timings["image_gen_total"]
TotalTime(t) ==
    t.s3_read + (TimingGet(t.ocr) + TimingGet(t.llm)
                    + TimingGet(t.vision_extract)) + t.image_gen_total

\* The differences time.time() - t0 a run can measure.
Durations == {0, 1}

\* The locals of one run of the handler.
StartRun ==
    [pc |-> "s3_read", job_id |-> JobIdOfKey(IntakeKey(NewJobId)),
     size |-> 0, line_count |-> -1, dishes |-> <<>>, timings |-> NoTimings,
     any_failed |-> FALSE, completed_count |-> 0, consumed |-> {},
     cur |-> -1, exc |-> NoExc, published |-> <<>>]

\* What the outside hands to a run at its next step.
Ev(kind, out, n, ds) == [kind |-> kind, out |-> out, n |-> n, dishes |-> ds]

RunMenus == {ds \in DishLists : \A i, j \in 1 .. Len(ds) :
                                   i < j => ds[i].original_name # ds[j].original_name}

\* The responses the call a run is about to make can get.
CallResponses(run) ==
    CASE run.pc = "s3_read" ->
            {Ev("get_object", "error", 0, <<>>)}
                \cup {Ev("get_object", "ok", size, <<>>) :
                         size \in {1, TEXTRACT_MAX_BYTES + 1}}
      [] run.pc = "ocr" ->
            {Ev("textract", "error", 0, <<>>)}
                \cup {Ev("textract", "text", n, <<>>) : n \in 0 .. MaxOcrLines}
                \cup (IF run.size > TEXTRACT_MAX_BYTES
                      THEN {Ev("textract", "compress_error", 0, <<>>)}
                      ELSE {})
      [] run.pc = "llm" ->
            {Ev("structure_menu", "error", 0, <<>>)}
                \cup {Ev("structure_menu", "dishes", 0, ds) : ds \in RunMenus}
      [] run.pc = "vision" ->
            {Ev("structure_menu_from_image", "error", 0, <<>>)}
                \cup {Ev("structure_menu_from_image", "dishes", 0, ds) :
                         ds \in RunMenus}
      [] run.pc = "pool" ->
            {Ev("future", out, idx, <<>>) :
                out \in {"image", "none"},
                idx \in (0 .. Len(run.dishes) - 1) \ run.consumed}
      [] run.pc = "store_image" ->
            {Ev("put_image", out, 0, <<>>) : out \in {"ok", "error"}}
      [] run.pc \in {"extracted", "store_results", "except"} ->
            {Ev("put_result", out, 0, <<>>) : out \in {"ok", "error"}}
      [] OTHER -> {Ev("none", "ok", 0, <<>>)}

RunRaise(run, e) == [run EXCEPT !.pc = "except", !.exc = e]

RunPublish(run, r) == [run EXCEPT !.published = Append(@, r)]

\* get_object and the read of its body; timings["s3_read"].
StepRead(run, ev, d) ==
    IF ev.out = "ok"
    THEN [run EXCEPT !.pc = "ocr", !.size = ev.n, !.timings.s3_read = d]
    ELSE RunRaise(run, Exc("ClientError", "get_object failed", "s3_read"))

\* Mutant of StepOcr: a Textract call that took time is given up, and the
\* image goes to the vision model.
StepOcrTimeLimit(run, ev, d) ==
    CASE ev.out = "compress_error" ->
            RunRaise(run, Exc("UnidentifiedImageError",
                              "cannot identify image file", "compress"))
      [] ev.out = "error" -> [run EXCEPT !.pc = "vision"]
      [] OTHER ->
            [run EXCEPT !.timings.ocr = d, !.line_count = ev.n,
                        !.pc = IF d > 0 THEN "vision"
                               ELSE AfterOcr("text", ev.n)]

\* _extract_dishes up to the line-count test: timings["ocr"] is assigned
\* when extract_text has returned, and nothing reads it.
StepOcr(run, ev, d) ==
    CASE ev.out = "compress_error" ->
            RunRaise(run, Exc("UnidentifiedImageError",
                              "cannot identify image file", "compress"))
      [] ev.out = "error" -> [run EXCEPT !.pc = "vision"]
      [] OTHER ->
            [run EXCEPT !.timings.ocr = d, !.line_count = ev.n,
                        !.pc = AfterOcr("text", ev.n)]

\* structure_menu on the OCR text; timings["llm"] and the method.
StepStructure(run, ev, d) ==
    IF ev.out = "error"
    THEN [run EXCEPT !.pc = "vision"]
    ELSE LET timed == [run EXCEPT !.timings.llm = d,
                                  !.timings.extraction_method = "textract"]
         IN  IF OcrPathReturns(ev.dishes, run.line_count)
             THEN [timed EXCEPT !.dishes = ev.dishes, !.pc = "extracted"]
             ELSE [timed EXCEPT !.pc = "vision"]

\* structure_menu_from_image; timings["vision_extract"] and the method.
StepVision(run, ev, d) ==
    IF ev.out = "error"
    THEN RunRaise(run, Exc("LLMProcessingError", "vision model failed", "vision"))
    ELSE [run EXCEPT !.timings.vision_extract = d,
                     !.timings.extraction_method = "vision",
                     !.dishes = ev.dishes, !.pc = "extracted"]

\* `if not dishes:` with its total and its write, or the intermediate
\* write before the pool.
StepExtracted(run, ev, d) ==
    IF run.dishes = <<>>
    THEN LET summed == [run EXCEPT !.timings.total = SumFloats(run.timings)]
         IN  IF ev.out = "ok"
             THEN [RunPublish(summed, EmptyResult(run.job_id)) EXCEPT !.pc = "done"]
             ELSE RunRaise(summed, PutFailed("store_results"))
    ELSE IF ev.out = "ok"
         THEN [RunPublish(run, MenuResult(run.job_id, PROCESSING, run.dishes, None))
                  EXCEPT !.pc = "pool"]
         ELSE RunRaise(run, PutFailed("store_results"))

\* idx, img_bytes = future.result(), and the branch on img_bytes.
StepFuture(run, ev, d) ==
    IF ev.out = "image"
    THEN [run EXCEPT !.cur = ev.n, !.pc = "store_image"]
    ELSE [run EXCEPT !.cur = ev.n, !.any_failed = TRUE,
                     !.dishes = SetImageUrl(@, ev.n, PLACEHOLDER_IMAGE_URL),
                     !.pc = "store_results"]

\* store_image and the assignment of its URL.
StepStoreImage(run, ev, d) ==
    IF ev.out = "ok"
    THEN [run EXCEPT !.dishes = SetImageUrl(@, run.cur,
                                   PresignedUrl(ImageKey(run.job_id, run.cur))),
                     !.pc = "store_results"]
    ELSE RunRaise(run, PutFailed("store_image"))

\* The snapshot of the loop body and timings[f"image_{idx}"].
StepStoreResults(run, ev, d) ==
    LET count == run.completed_count + 1
        total == Len(run.dishes)
        r     == MenuResult(run.job_id, IncStatus(count, total, run.any_failed),
                            run.dishes, None)
        counted == [run EXCEPT !.completed_count = count,
                               !.consumed = @ \cup {run.cur}]
    IN  IF ev.out = "ok"
        THEN [RunPublish(counted, r)
                 EXCEPT !.timings.image = (run.cur :> d) @@ @,
                        !.pc = IF count = total THEN "totals" ELSE "pool"]
        ELSE RunRaise(counted, PutFailed("store_results"))

\* After the pool: timings["image_gen_total"] and timings["total"].
StepTotals(run, ev, d) ==
    LET timed == [run EXCEPT !.timings.image_gen_total = d]
    IN  [timed EXCEPT !.timings.total = TotalTime(timed.timings), !.pc = "done"]

\* The two except branches: the FAILED snapshot, whose write can raise.
StepExcept(run, ev, d) ==
    LET msg == IF run.exc.type \in PipelineErrors
               THEN run.exc.msg
               ELSE "Processing failed: " \o run.exc.msg
    IN  IF ev.out = "ok"
        THEN [RunPublish(run, ErrorResult(run.job_id, msg)) EXCEPT !.pc = "done"]
        ELSE [run EXCEPT !.pc = "raised"]

\* One step of a run: response ev, measured duration d.
Step(run, ev, d) ==
    CASE run.pc = "s3_read"       -> StepRead(run, ev, d)
      [] run.pc = "ocr"           -> StepOcr(run, ev, d)
      [] run.pc = "llm"           -> StepStructure(run, ev, d)
      [] run.pc = "vision"        -> StepVision(run, ev, d)
      [] run.pc = "extracted"     -> StepExtracted(run, ev, d)
      [] run.pc = "pool"          -> StepFuture(run, ev, d)
      [] run.pc = "store_image"   -> StepStoreImage(run, ev, d)
      [] run.pc = "store_results" -> StepStoreResults(run, ev, d)
      [] run.pc = "totals"        -> StepTotals(run, ev, d)
      [] run.pc = "except"        -> StepExcept(run, ev, d)
      [] OTHER                    -> run

InitTwoRuns ==
    /\ entry = "two_runs"
    /\ pc = "two_runs"
    /\ upload_key = NoKey
    /\ submit_pc = "start"
    /\ invocations = 0
    /\ job_id = None
    /\ dishes = <<>>
    /\ extraction_method = None
    /\ frame = NoFrame
    /\ task = NoTasks
    /\ consumed = {}
    /\ results = <<>>
    /\ any_failed = FALSE
    /\ completed_count = 0
    /\ exc = NoExc
    /\ published = <<>>
    /\ result_json = NoResult
    /\ image_store = {}
    /\ result_keys = {}
    /\ timeout_threshold = 0
    /\ elapsed = 0
    /\ timed_out = FALSE
    /\ returned = NoResult
    /\ response = NoResponse
    /\ parsed = NotParsed
    /\ roundtrip = NoRoundTrip
    /\ status_call = NoStatusCall
    /\ run_a = StartRun
    /\ run_b = StartRun

\* Both runs take their next step.  A call made by both gets the same
\* response in both; run_a measures 0, run_b any duration.
TwoRuns ==
    /\ entry = "two_runs"
    /\ \E ev_a \in CallResponses(run_a), ev_b \in CallResponses(run_b), d \in Durations :
          /\ ev_a \in CallResponses(run_b) => ev_b = ev_a
          /\ run_a' = Step(run_a, ev_a, 0)
          /\ run_b' = Step(run_b, ev_b, d)
    /\ UNCHANGED <<parserVars, roundtrip, status_call, frame, entry, pc, submit_pc,
                   upload_key, invocations, job_id, dishes, extraction_method,
                   poolVars, exc, sinkVars, clockVars>>

\* get_object.
TwoRunsRead ==
    /\ run_a.pc = "s3_read"
    /\ TwoRuns

\* _extract_dishes.
TwoRunsExtract ==
    /\ run_a.pc \in {"ocr", "llm", "vision"}
    /\ TwoRuns

\* The write after the extraction.
TwoRunsPublish ==
    /\ run_a.pc = "extracted"
    /\ TwoRuns

\* The as_completed loop and the totals after it.
TwoRunsPool ==
    /\ run_a.pc \in {"pool", "store_image", "store_results", "totals"}
    /\ TwoRuns

\* The except branches.
TwoRunsExcept ==
    /\ run_a.pc = "except"
    /\ TwoRuns

NextTwoRuns ==
    \/ TwoRunsRead
    \/ TwoRunsExtract
    \/ TwoRunsPublish
    \/ TwoRunsPool
    \/ TwoRunsExcept

SpecTwoRuns == InitTwoRuns /\ [][NextTwoRuns]_vars


\* ======================================================================
\* Properties
\* ======================================================================
Last(s) == s[Len(s)]
IsTerminal(r) == r.status \in TerminalStatus
TerminalCount == Cardinality({i \in 1 .. Len(published) : IsTerminal(published[i])})
HandlerEnded == pc \in {"done", "raised"}
TaskOk(idx) == idx \in DOMAIN task /\ task[idx].state = "ok"
TaskFailed(idx) == idx \in DOMAIN task /\ task[idx].state = "fail"
Assigned(r) == {i \in 1 .. Len(r.dishes) : r.dishes[i].image_url # None}
IsReal(url) == url \notin {None, PLACEHOLDER_IMAGE_URL}
HasReal(r) == \E i \in 1 .. Len(r.dishes) : IsReal(r.dishes[i].image_url)
HasUnreal(r) == \E i \in 1 .. Len(r.dishes) : ~IsReal(r.dishes[i].image_url)

\* Every published status but the last is `processing`: nothing follows a
\* terminal status.
OnlyLastMayBeTerminal ==
    \A i \in 1 .. Len(published) :
        i < Len(published) => published[i].status = PROCESSING

\* C1 (as stated): in one invocation of the process handler the published
\* statuses are zero or more `processing` followed by exactly one terminal
\* status, on every path the invocation can end by.
C1_ExactlyOneTerminal ==
    entry = "handler" =>
        /\ OnlyLastMayBeTerminal
        /\ HandlerEnded => TerminalCount = 1

\* C1 (amended): the published statuses are zero or more `processing`
\* followed by at most one terminal status and nothing after it; exactly one
\* terminal status when the handler returns, and none when the write of the
\* failed result inside an except clause raises and leaves the handler.
C1_AtMostOneTerminal ==
    entry = "handler" =>
        /\ OnlyLastMayBeTerminal
        /\ pc = "done" => TerminalCount = 1 /\ IsTerminal(Last(published))
        /\ pc = "raised" => TerminalCount = 0

\* C1 witness: the unexpected-error path taken from inside the image loop,
\* after two processing snapshots.
C1_Witness ==
    /\ entry = "handler"
    /\ pc = "done"
    /\ Len(published) = 3
    /\ published[1].status = PROCESSING
    /\ published[2].status = PROCESSING
    /\ published[3].status = FAILED

\* The final JobResult the image outcomes call for.
ExpectedFinal ==
    MenuResult(job_id,
               IF \A i \in Indices : TaskOk(i) THEN COMPLETED ELSE PARTIAL,
               [i \in 1 .. Len(dishes) |->
                   [original_name |-> dishes[i].original_name,
                    image_url |-> IF TaskOk(i - 1)
                                  THEN PresignedUrl(ImageKey(job_id, i - 1))
                                  ELSE PLACEHOLDER_IMAGE_URL]],
               None)

\* C2 (as stated): for N >= 1 dishes, every mask of image outcomes and every
\* completion order, the last JobResult published has the N dishes in
\* extraction order, each with its own URL or the placeholder, and status
\* completed iff no outcome failed, else partial.
C2_LastPublishedIsExpected ==
    (entry = "handler" /\ pc = "done" /\ Len(dishes) >= 1) =>
        Last(published) = ExpectedFinal

\* C2, restricted to invocations in which no S3 call raises.
C2_WhenNoS3Error ==
    (entry = "handler" /\ pc = "done" /\ Len(dishes) >= 1 /\ exc = NoExc) =>
        Last(published) = ExpectedFinal

\* C3: on the image path with every sink write succeeding, N + 1 JobResults
\* are published: the first is `processing` with no image_url; the snapshot
\* after the k-th consumed outcome has exactly k dishes assigned, and is
\* `processing` for k < N and completed or partial for k = N.
C3_SnapshotPerOutcome ==
    (entry = "handler" /\ pc \in {"pool", "done"} /\ exc = NoExc
        /\ Len(dishes) >= 1) =>
        /\ Len(published) = completed_count + 1
        /\ pc = "done" => completed_count = Len(dishes)
        /\ published[1].status = PROCESSING
        /\ Len(published[1].dishes) = Len(dishes)
        /\ Assigned(published[1]) = {}
        /\ \A k \in 1 .. completed_count :
              /\ Len(published[k + 1].dishes) = Len(dishes)
              /\ Cardinality(Assigned(published[k + 1])) = k
              /\ k < Len(dishes) => published[k + 1].status = PROCESSING
              /\ k = Len(dishes) =>
                    published[k + 1].status \in {COMPLETED, PARTIAL}

C3_Witness ==
    /\ entry = "handler"
    /\ pc = "done"
    /\ exc = NoExc
    /\ Len(dishes) = 2
    /\ Len(published) = 3
    /\ published[2].status = PROCESSING
    /\ published[3].status = PARTIAL

\* C4 (as stated): across the snapshots of one invocation the set of
\* assigned indices never shrinks and an assigned value never changes, and
\* the final snapshot has every dish index populated.
C4_CoverageMonotone ==
    entry = "handler" =>
        /\ \A i \in 1 .. Len(published) : \A j \in i .. Len(published) :
              \A x \in Assigned(published[i]) :
                  /\ x \in Assigned(published[j])
                  /\ published[j].dishes[x].image_url
                        = published[i].dishes[x].image_url
        /\ (pc = "done" /\ published # <<>>) =>
              Assigned(Last(published)) = 1 .. Len(dishes)

\* C4, restricted to invocations in which no S3 call raises.
C4_WhenNoS3Error ==
    (entry = "handler" /\ exc = NoExc) =>
        /\ \A i \in 1 .. Len(published) : \A j \in i .. Len(published) :
              \A x \in Assigned(published[i]) :
                  /\ x \in Assigned(published[j])
                  /\ published[j].dishes[x].image_url
                        = published[i].dishes[x].image_url
        /\ (pc = "done" /\ published # <<>>) =>
              Assigned(Last(published)) = 1 .. Len(dishes)

SinkTerminal == result_json.status \in TerminalStatus

\* C5 (as stated): once result.json holds a terminal status no later write
\* changes it, whether by the submit handler or by a further invocation of
\* the process handler for the same intake key.
C5_TerminalNeverOverwritten == [][SinkTerminal => result_json' = result_json]_vars

\* The terminal JobResults published or returned.
TerminalResults ==
    {published[i] : i \in {k \in 1 .. Len(published) : IsTerminal(published[k])}}
        \cup (IF returned = NoResult THEN {} ELSE {returned})

C7_FailedOnlyWithoutDishes ==
    entry = "handler" =>
        \A j \in 1 .. Len(published) :
            published[j].status = FAILED =>
                \A i \in 1 .. j : published[i].dishes = <<>>

NonGenerationOrigins ==
    {"s3_read", "compress", "vision", "store_image", "store_results"}

\* C8: image-generation failures (a non-throttling error, or throttling on
\* every one of the MAX_RETRIES attempts) never make the job failed: a
\* failed result is published only for an exception raised by the intake
\* read, the extraction chain or an S3 write, and when generation failures
\* are the only failures the terminal status is partial, for any number of
\* failing dishes.
C8_GenerationFailureIsPartial ==
    entry = "handler" =>
        /\ (\E j \in 1 .. Len(published) : published[j].status = FAILED) =>
              exc.origin \in NonGenerationOrigins
        /\ (pc = "done" /\ exc = NoExc /\ \E i \in Indices : TaskFailed(i)) =>
              Last(published).status = PARTIAL

\* C8 witness: both dishes fail, one by exhausting its retries and one by a
\* non-retryable error, and the job ends partial.
C8_Witness ==
    /\ entry = "handler"
    /\ pc = "done"
    /\ exc = NoExc
    /\ Len(dishes) = 2
    /\ \A i \in Indices : TaskFailed(i)
    /\ \E i \in Indices : task[i].attempt = MAX_RETRIES
    /\ \E i \in Indices : task[i].attempt = 0
    /\ Last(published).status = PARTIAL

ExtractionFailed == exc.origin \in {"compress", "vision"}
CarriesCause(r) ==
    r.error_message \in {exc.msg, "Processing failed: " \o exc.msg}

\* C9 (as stated): when the extraction chain fails exactly one JobResult is
\* published, failed and carrying the cause, and no image task is started.
C9_ExactlyOneFailed ==
    (entry = "handler" /\ ExtractionFailed /\ HandlerEnded) =>
        /\ Len(published) = 1
        /\ published[1].status = FAILED
        /\ CarriesCause(published[1])
        /\ task = NoTasks

\* C9 (amended): when the extraction chain fails no image task is started
\* and at most one JobResult is published: exactly one when the handler
\* returns, failed and carrying the cause in error_message, and none when
\* the write of that result raises.
C9_AtMostOneFailed ==
    (entry = "handler" /\ ExtractionFailed) =>
        /\ task = NoTasks
        /\ pc = "except" => published = <<>>
        /\ pc = "raised" => published = <<>>
        /\ pc = "done" =>
              /\ Len(published) = 1
              /\ published[1].status = FAILED
              /\ published[1].dishes = <<>>
              /\ CarriesCause(published[1])

C9_Witness ==
    /\ entry = "handler"
    /\ pc = "done"
    /\ exc.type = "LLMProcessingError"
    /\ ExtractionFailed
    /\ Len(published) = 1
    /\ published[1].error_message = "Bedrock invoke_model failed"

\* C10 (as stated): run_pipeline never propagates an exception; it returns
\* a MenuResult that is completed, partial or failed, and failed carries
\* the cause in error_message.
C10_PipelineAlwaysReturns ==
    entry = "run_pipeline" =>
        /\ pc # "rp_raised"
        /\ pc = "rp_returned" =>
              /\ returned.status \in TerminalStatus
              /\ returned.status = FAILED => returned.error_message # None

\* The handler's extraction chain returned an empty dish list (the vision
\* fallback is the only path that can return one).
ExtractedEmpty ==
    /\ entry = "handler"
    /\ extraction_method = "vision"
    /\ dishes = <<>>
    /\ pc \in {"extracted", "except", "done", "raised"}

\* C11 (as stated): when extraction yields an empty dish list exactly one
\* JobResult is published, completed with an empty dish list and not failed,
\* and no processing snapshot is published nor image generation started.
C11_EmptyPublishesCompleted ==
    (ExtractedEmpty /\ HandlerEnded) =>
        /\ published = <<MenuResult(job_id, COMPLETED, <<>>, None)>>
        /\ task = NoTasks

\* C11 (amended): when extraction yields an empty dish list no processing
\* snapshot is published, no image generation is started and at most one
\* JobResult is published, with an empty dish list: completed when its
\* write succeeds; when that write raises, the catch-all publishes failed
\* instead, or nothing when the second write raises too.
C11_EmptyNeverStartsImages ==
    ExtractedEmpty =>
        /\ task = NoTasks
        /\ Len(published) <= 1
        /\ \A i \in 1 .. Len(published) :
              /\ published[i].dishes = <<>>
              /\ published[i].status # PROCESSING
        /\ (pc = "done" /\ exc = NoExc) =>
              published = <<MenuResult(job_id, COMPLETED, <<>>, None)>>
        /\ (pc = "done" /\ exc # NoExc) =>
              published = <<MenuResult(job_id, FAILED, <<>>,
                                       "Processing failed: put_object failed")>>
        /\ pc \in {"extracted", "except", "raised"} => published = <<>>

C11_Witness ==
    /\ ExtractedEmpty
    /\ pc = "done"
    /\ exc = NoExc
    /\ Len(published) = 1
    /\ published[1].status = COMPLETED

\* Every JobResult published by the handler or returned by run_pipeline.
AllResults ==
    {published[i] : i \in 1 .. Len(published)}
        \cup (IF returned = NoResult THEN {} ELSE {returned})

\* C12: every JobResult with status failed that is published or returned
\* has a non-null error_message.
C12_FailedHasMessage ==
    \A r \in AllResults : r.status = FAILED => r.error_message # None

\* C12 witness: failed results of both entry points, from the catch-all of
\* the handler and from an early return of run_pipeline.
C12_Witness ==
    \E r \in AllResults :
        /\ r.status = FAILED
        /\ \/ entry = "handler" /\ exc.origin = "store_image" /\ pc = "done"
           \/ entry = "run_pipeline" /\ pc = "rp_returned"

\* C13 (as stated): every JobResult with status processing, completed or
\* partial has error_message absent.
C13_MessageOnlyWhenFailed ==
    \A r \in AllResults : r.status # FAILED => r.error_message = None

\* C13 (amended): error_message is absent on every processing and completed
\* JobResult, and on every partial one except the result run_pipeline
\* returns when the timeout is reached before image generation, which
\* carries an explanatory message.
C13_MessageOnlyFailedOrEarlyTimeout ==
    \A r \in AllResults :
        r.error_message # None =>
            \/ r.status = FAILED
            \/ /\ entry = "run_pipeline"
               /\ r.status = PARTIAL
               /\ r.error_message = TimeoutMessage
               /\ task = NoTasks

C13_Witness ==
    /\ entry = "run_pipeline"
    /\ pc = "rp_returned"
    /\ returned.status = PARTIAL
    /\ returned.error_message = TimeoutMessage
    /\ Len(returned.dishes) = 1

\* C14: in run_pipeline, when the elapsed time read at the checkpoint before
\* image generation has reached timeout_threshold, no generation task is
\* started, every dish is given the placeholder, and the result returned is
\* partial with an error_message.
C14_EarlyTimeoutSkipsGeneration ==
    /\ [](returned.error_message = TimeoutMessage => task = NoTasks)
    /\ [][(pc = "rp_check1" /\ elapsed' >= timeout_threshold) =>
            /\ task' = NoTasks
            /\ pc' = "rp_returned"
            /\ returned'.status = PARTIAL
            /\ returned'.error_message # None
            /\ Len(returned'.dishes) = Len(dishes)
            /\ \A i \in 1 .. Len(dishes) :
                  returned'.dishes[i] =
                      [original_name |-> dishes[i].original_name,
                       image_url |-> PLACEHOLDER_IMAGE_URL]]_vars

C14_Witness ==
    /\ entry = "run_pipeline"
    /\ pc = "rp_returned"
    /\ timed_out
    /\ task = NoTasks
    /\ Len(returned.dishes) = 2
    /\ returned.status = PARTIAL
    /\ \A i \in 1 .. 2 : returned.dishes[i].image_url = PLACEHOLDER_IMAGE_URL

\* run_pipeline returned after image generation ran.
GenerationRan ==
    /\ entry = "run_pipeline"
    /\ pc = "rp_returned"
    /\ task # NoTasks

\* The threshold was reached at the checkpoint after image generation only.
LateTimeout == GenerationRan /\ timed_out

\* C15 (as stated): when the threshold is reached only after image
\* generation completes, the status is completed when no dish failed and
\* partial when at least one failed.
C15_StatusByFailureAlone ==
    LateTimeout =>
        returned.status = IF \E i \in Indices : TaskFailed(i)
                          THEN PARTIAL ELSE COMPLETED

\* C16 (as stated): when the threshold is reached only after image
\* generation completes, the returned JobResult's error_message is set.
C16_OverrunRecorded == LateTimeout => returned.error_message # None

\* C16 (amended): when the threshold is reached only after image generation
\* completes, the returned JobResult has no error_message: only the timeout
\* reached before image generation sets one.
C16_LateTimeoutHasNoMessage ==
    LateTimeout => returned.error_message = None

C16_Witness ==
    /\ LateTimeout
    /\ \E i \in Indices : TaskFailed(i)
    /\ returned.error_message = None

Names(ds) == [i \in 1 .. Len(ds) |-> ds[i].original_name]

\* C17: for run_pipeline with the timeout not reached, a non-empty dish
\* list and any mask of image outcomes: the dish names never change once
\* extracted, dish i is returned with generated://dish_i.png iff its outcome
\* carries image bytes and with the placeholder otherwise, and the status is
\* completed iff no outcome failed, else partial.
C17_DishesKeptAndStatus ==
    /\ [][(entry = "run_pipeline" /\ dishes # <<>>) =>
              Names(dishes') = Names(dishes)]_vars
    /\ []((GenerationRan /\ ~timed_out) =>
            /\ Len(returned.dishes) = Cardinality(DOMAIN task)
            /\ Names(returned.dishes) = Names(dishes)
            /\ \A i \in Indices :
                  returned.dishes[i + 1].image_url =
                      IF TaskOk(i)
                      THEN "generated://dish_" \o ToString(i) \o ".png"
                      ELSE PLACEHOLDER_IMAGE_URL
            /\ returned.status = IF \A i \in Indices : TaskOk(i)
                                 THEN COMPLETED ELSE PARTIAL)

\* C17 witness: two dishes completing in reverse order, the first failing.
C17_Witness ==
    /\ GenerationRan
    /\ ~timed_out
    /\ Len(dishes) = 2
    /\ results[1].index = 1
    /\ TaskFailed(0)
    /\ TaskOk(1)
    /\ returned.dishes[1].image_url = PLACEHOLDER_IMAGE_URL
    /\ returned.dishes[2].image_url = "generated://dish_1.png"
    /\ returned.status = PARTIAL

\* C18: a task makes at most MAX_RETRIES calls to the generation service,
\* has calls left whenever it is still running, ends as an image or as the
\* failure marker, ends as the failure marker when every attempt was
\* throttled, and its outcome is collected under the index it was given.
C18_BoundedCalls ==
    /\ \A idx \in DOMAIN task :
          /\ task[idx].calls <= MAX_RETRIES
          /\ task[idx].state \in {"running", "ok", "fail"}
          /\ task[idx].state = "running" => task[idx].calls < MAX_RETRIES
          /\ (task[idx].last = "throttled" /\ task[idx].calls = MAX_RETRIES) =>
                task[idx].state = "fail"
    /\ \A k \in 1 .. Len(results) :
          /\ results[k].index \in DOMAIN task
          /\ results[k].image = TaskOk(results[k].index)

\* C18 witness: every attempt of a task throttled.
C18_Witness ==
    \E idx \in DOMAIN task :
        /\ task[idx].calls = MAX_RETRIES
        /\ task[idx].last = "throttled"
        /\ task[idx].state = "fail"

\* C19: a generation error that is not a throttling signal, on whichever
\* attempt, fails the dish at once: the task is the failure marker, no sleep
\* was made for that attempt, and the task makes no call or sleep afterwards.
C19_ErrorFailsImmediately ==
    /\ [](\A idx \in DOMAIN task :
            task[idx].last = "error" =>
                /\ task[idx].state = "fail"
                /\ task[idx].calls = task[idx].attempt + 1
                /\ Len(task[idx].slept) = task[idx].attempt)
    /\ [][\A idx \in DOMAIN task :
            (task[idx].last = "error" /\ idx \in DOMAIN task') =>
                task'[idx] = task[idx]]_vars

\* C19 witness: the error on the second attempt, after one throttle.
C19_Witness ==
    \E idx \in DOMAIN task :
        /\ task[idx].last = "error"
        /\ task[idx].attempt = 1
        /\ task[idx].calls = 2
        /\ task[idx].state = "fail"

\* C20: every throttled attempt k is followed by exactly one sleep of
\* BASE_DELAY * 2^k and there is no other sleep; when every attempt is
\* throttled MAX_RETRIES sleeps are made.
C20_BackoffDelays ==
    \A idx \in DOMAIN task :
        LET t == task[idx]
        IN  /\ Len(t.slept) = t.attempt
            /\ t.calls = Len(t.slept)
                           + (IF t.last \in {"image", "error"} THEN 1 ELSE 0)
            /\ \A k \in 1 .. Len(t.slept) :
                  t.slept[k] = BASE_DELAY * (2 ^ (k - 1))
            /\ (t.state = "fail" /\ t.last = "throttled") =>
                  Len(t.slept) = MAX_RETRIES

\* C20 witness: two throttles, then the image.
C20_Witness ==
    \E idx \in DOMAIN task :
        /\ task[idx].state = "ok"
        /\ task[idx].slept = <<BASE_DELAY * 1, BASE_DELAY * 2>>

\* C21: for every dish list, failure mask and completion order,
\* generate_all_dish_images returns one outcome per index, in ascending
\* index order, and outcome i is the failure marker iff the generation of
\* dish i itself failed; for no dish it returns no outcome.
C21_OneOutcomePerIndex ==
    /\ SortByIndex(<<>>) = <<>>
    /\ \A k \in 1 .. Len(results) :
          /\ results[k].image = TaskOk(results[k].index)
          /\ \A j \in 1 .. Len(results) :
                results[j].index = results[k].index => j = k
    /\ (entry = "run_pipeline" /\ pc = "rp_pool" /\ consumed = Indices) =>
          LET image_results == SortByIndex(results)
          IN  /\ Len(image_results) = Len(dishes)
              /\ \A k \in 1 .. Len(image_results) :
                    /\ image_results[k].index = k - 1
                    /\ image_results[k].image = TaskOk(k - 1)

\* C21 witness: two dishes collected in reverse order, only the first failed.
C21_Witness ==
    /\ entry = "run_pipeline"
    /\ pc = "rp_pool"
    /\ Len(dishes) = 2
    /\ consumed = Indices
    /\ results[1].index = 1
    /\ results[1].image
    /\ ~results[2].image

CallsTo(fn) == {k \in 1 .. Len(frame.calls) : frame.calls[k].fn = fn}

\* C22: when the OCR call reports no text or raises, the structuring of OCR
\* text is skipped, the vision fallback is called exactly once, and
\* _extract_dishes returns its dish list or fails with its error.
C22_OcrFailureFallsBack ==
    /\ [](frame.ocr \in {"no_text", "error"} =>
            /\ pc \in {"vision", "vision_wait"}
            /\ CallsTo("structure_menu") = {}
            /\ Cardinality(CallsTo("structure_menu_from_image"))
                  = IF pc = "vision" THEN 0 ELSE 1)
    /\ [][(pc = "vision_wait" /\ frame.ocr \in {"no_text", "error"}) =>
            /\ frame' = NoFrame
            /\ \/ pc' = "extracted" /\ extraction_method' = "vision"
                    /\ exc' = NoExc
               \/ pc' = "except" /\ exc'.origin = "vision"
                    /\ dishes' = <<>>]_vars

C22_Witness ==
    /\ frame.ocr = "error"
    /\ pc = "vision_wait"
    /\ Len(frame.calls) = 1

\* C23: when OCR returns text, with fewer than MIN_OCR_LINES lines the
\* structuring model is not called and the vision path is used; with at
\* least MIN_OCR_LINES lines the text is structured once, a non-empty dish
\* list is returned without a vision call, and an empty one leads to vision.
C23_LineThreshold ==
    /\ [](frame.ocr = "text" =>
            /\ frame.line_count < MIN_OCR_LINES =>
                  /\ pc \in {"vision", "vision_wait"}
                  /\ CallsTo("structure_menu") = {}
            /\ frame.line_count >= MIN_OCR_LINES =>
                  \/ pc = "llm" /\ frame.calls = <<>>
                  \/ /\ pc \in {"vision", "vision_wait"}
                     /\ CallsTo("structure_menu") = {1}
                     /\ frame.calls[1].outcome # "dishes")
    /\ [][pc = "llm" =>
            \/ /\ pc' = "extracted"
               /\ dishes' # <<>>
               /\ extraction_method' = "textract"
               /\ frame.calls = <<>>
            \/ /\ pc' = "vision"
               /\ Len(frame'.calls) = 1
               /\ dishes' = <<>>]_vars

C23_Witness ==
    /\ frame.ocr = "text"
    /\ frame.line_count = MIN_OCR_LINES
    /\ pc = "vision_wait"
    /\ frame.calls[1].outcome = "no_dishes"

C25_VisionGetsOriginalBytes ==
    /\ [](/\ \A k \in CallsTo("structure_menu_from_image") :
                /\ frame.calls[k].image = frame.image_bytes
                /\ frame.calls[k].image.encoding = "raw"
          /\ (frame.ocr # None
                /\ frame.image_bytes.size > TEXTRACT_MAX_BYTES) =>
                /\ frame.textract_bytes.encoding = "jpeg"
                /\ frame.textract_bytes.size <= TEXTRACT_MAX_BYTES)
    /\ [][(frame # NoFrame /\ frame' # NoFrame) =>
              frame'.image_bytes = frame.image_bytes]_vars

\* C25 witness: an oversized image recompressed for OCR, then sent to vision.
C25_Witness ==
    /\ pc = "vision_wait"
    /\ frame.image_bytes.size > TEXTRACT_MAX_BYTES
    /\ frame.textract_bytes.encoding = "jpeg"
    /\ frame.calls[Len(frame.calls)].image = frame.image_bytes

\* The parser was given the whole text of a JSON array and has returned.
ParsedWhole ==
    /\ pc = "parsed"
    /\ response.cut = -1
    /\ response.value.t = "list"

Items == response.value.items

\* The entries the parser makes a DishRecord from, in input order.
Kept == SelectSeq(Items, ValidName)

NonBlankName(e) ==
    /\ e.kind = "object"
    /\ e.fields.original_name.t = "str"
    /\ Strip(e.fields.original_name.s) # <<>>

ScalarKeys == {"translated_name", "description", "price"}

\* C26 (as stated): for every JSON array the output has one DishRecord per
\* entry whose original_name is a non-blank string, in input order, each
\* with the trimmed, non-empty name; entries whose original_name is missing,
\* blank or not a string, and non-object entries, are skipped.
C26_OneRecordPerNamedEntry ==
    ParsedWhole =>
        LET named == SelectSeq(Items, NonBlankName)
        IN  /\ parsed.status = "returned"
            /\ Len(parsed.dishes) = Len(named)
            /\ \A k \in 1 .. Len(parsed.dishes) :
                  /\ parsed.dishes[k].original_name # <<>>
                  /\ k <= Len(named) =>
                        parsed.dishes[k].original_name
                            = Strip(named[k].fields.original_name.s)

\* C27: where translated_name, description or price of a dish entry is null
\* or absent the DishRecord field is absent; ingredients that are absent,
\* null or an empty list give the empty list, and null entries inside an
\* ingredients list are left out.
C27_NullOrAbsentStaysAbsent ==
    ParsedWhole =>
        /\ Len(parsed.dishes) = Len(Kept)
        /\ \A k \in 1 .. Len(Kept) :
              LET e == Kept[k]
                  d == parsed.dishes[k]
                  raw == e.fields.ingredients
              IN  /\ \A key \in ScalarKeys :
                        e.fields[key].t \in {"absent", "null"} =>
                            d[key] = NoneStr
                  /\ (raw.t \in {"absent", "null"}
                        \/ (raw.t = "list" /\ raw.items = <<>>)) =>
                        d.ingredients = <<>>
                  /\ raw.t = "list" =>
                        Len(d.ingredients) =
                            Cardinality({i \in 1 .. Len(raw.items) :
                                            raw.items[i].t # "null"})

\* C27 witness: a null translated_name, and nulls around one ingredient.
C27_Witness ==
    /\ ParsedWhole
    /\ Len(Kept) = 2
    /\ Kept[1].fields.translated_name = JNull
    /\ parsed.dishes[1].translated_name = NoneStr
    /\ Kept[2].fields.ingredients = JList(<<JNull, JStr(<<"x">>), JNull>>)
    /\ parsed.dishes[2].ingredients = <<(<<"x">>)>>

\* C28 (as stated): translated_name, description and price are absent in
\* the DishRecord when the input value is null, is not a string, or is blank
\* after trimming; a value that is present is the trimmed input string.
C28_NonStringIsAbsent ==
    ParsedWhole =>
        \A k \in 1 .. Len(Kept) : \A key \in ScalarKeys :
            LET v == Get(Kept[k], key)
                out == parsed.dishes[k][key]
            IN  /\ (v.t # "str" \/ Strip(v.s) = <<>>) => out = NoneStr
                /\ out.present => (v.t = "str" /\ out.s = Strip(v.s))

NonNull(items) == SelectSeq(items, LAMBDA i : i.t # "null")

\* C29 (as stated): the ingredients of every DishRecord contain no null
\* entry and no empty entry, and are the empty list when the input value is
\* not a list.
C29_NoNullNoEmptyIngredient ==
    ParsedWhole =>
        \A k \in 1 .. Len(Kept) :
            LET raw == Get(Kept[k], "ingredients")
                out == parsed.dishes[k].ingredients
            IN  /\ raw.t # "list" => out = <<>>
                /\ raw.t = "list" => Len(out) = Len(NonNull(raw.items))
                /\ \A j \in 1 .. Len(out) : out[j] # <<>>

\* C29 (amended): the ingredients of every DishRecord are the non-null
\* entries of the input list, in order, each rendered as a string, so no
\* null entry remains but an empty string stays as an empty entry; they are
\* the empty list when the input value is not a list.
C29_NoNullIngredient ==
    ParsedWhole =>
        \A k \in 1 .. Len(Kept) :
            LET raw == Get(Kept[k], "ingredients")
                out == parsed.dishes[k].ingredients
            IN  /\ raw.t # "list" => out = <<>>
                /\ raw.t = "list" =>
                      /\ Len(out) = Len(NonNull(raw.items))
                      /\ \A j \in 1 .. Len(out) : out[j] = NonNull(raw.items)[j].s

\* C29 witness: an empty string kept among the ingredients.
C29_Witness ==
    /\ ParsedWhole
    /\ Len(Kept) = 1
    /\ Kept[1].fields.ingredients = JList(<<JStr(<<>>), JStr(<<"y">>)>>)
    /\ parsed.dishes[1].ingredients = <<(<<>>), (<<"y">>)>>

\* The parser was given the text of an array of dish objects cut short.
ParsedCut == pc = "parsed" /\ response.cut >= 0

\* The 0-based offset in the text at which the j-th object closes.
CloseOffset(r, j) ==
    (IF r.fenced THEN Len(FenceOpen) ELSE 0)
        + Len(SerializeArray(SubSeq(r.value.items, 1, j))) - 2

\* The objects that close before the cut.
Complete(r) == {j \in 1 .. Len(r.value.items) : CloseOffset(r, j) < r.cut}

\* C30: for the text of an array of dish objects cut at any point, the
\* parser returns the records of exactly the leading objects that close
\* before the cut, whatever braces, quotes and nested values they hold, and
\* raises a structuring error when no object closes before the cut.
C30_RecoversLeadingObjects ==
    ParsedCut =>
        LET n == Cardinality(Complete(response))
        IN  IF n = 0 THEN parsed = Raised(ParseFailed)
            ELSE /\ parsed.status = "returned"
                 /\ Len(parsed.dishes) = n
                 /\ \A j \in 1 .. n :
                       parsed.dishes[j].original_name
                           = Items[j].fields.original_name.s

\* C30 witness: a cut inside the second object, the first object holding
\* braces inside a string literal.
C30_Witness ==
    /\ ParsedCut
    /\ Len(Items) = 2
    /\ Items[1].fields.original_name.s = <<"}", "{">>
    /\ Cardinality(Complete(response)) = 1
    /\ CloseOffset(response, 1) + 3 < response.cut
    /\ parsed.status = "returned"
    /\ Len(parsed.dishes) = 1

\* C31: for every DishRecord and every MenuResult, whatever fields are
\* populated or absent, whatever the status and the dish list,
\* from_json(to_json(x)) equals x.
C31_RoundTrip ==
    pc = "round_tripped" => roundtrip.back = roundtrip.value

\* C31 witness: a MenuResult with an absent and a populated optional field,
\* and dishes with absent and populated fields, has been round-tripped.
C31_Witness ==
    /\ pc = "round_tripped"
    /\ roundtrip.value.kind = "MenuResult"
    /\ roundtrip.value.status = PARTIAL
    /\ roundtrip.value.source_language = NoneStr
    /\ roundtrip.value.error_message = Some(<<"x">>)
    /\ Len(roundtrip.value.dishes) = 2
    /\ roundtrip.value.dishes[1].image_url = NoneStr
    /\ roundtrip.value.dishes[2].image_url = Some(<<"u">>)
    /\ roundtrip.wire.dishes[1].image_url = JNull
    /\ roundtrip.back = roundtrip.value

\* C32: get_results returns None exactly when get_object raised a
\* ClientError whose code is NoSuchKey or 404, and raises for every other
\* error; the status handler answers 404 for None, 500 for any error, and
\* always returns a response.
C32_MissingIsNotAnError ==
    /\ pc \in {"status_got", "status_returned"} =>
          /\ status_call.fetched = "None"
                <=> status_call.error \in {"NoSuchKey", "404"}
          /\ status_call.error \notin {None, "NoSuchKey", "404"}
                => status_call.fetched = "raised"
          /\ status_call.fetched = "result"
                => /\ status_call.error = None
                   /\ ResultToJson(status_call.result) = status_call.stored
    /\ pc = "status_returned" =>
          /\ status_call.fetched = "None" => status_call.statusCode = 404
          /\ status_call.fetched = "raised" => status_call.statusCode = 500
          /\ status_call.fetched = "result" => status_call.statusCode = 200

\* C32 witness: a storage error other than a missing key, on a key that is
\* missing, answered with 500.
C32_Witness ==
    /\ pc = "status_returned"
    /\ status_call.stored = Missing
    /\ status_call.error = "AccessDenied"
    /\ status_call.fetched = "raised"
    /\ status_call.statusCode = 500

\* C33: the submit handler writes the initial record, status processing
\* with no dishes under the job identifier of the signed key, before the
\* upload URL is in the client's hands; the process handler therefore runs
\* only after that write, and once it has published, the object under
\* {job_id}/result.json is its last snapshot, never the initial record again.
C33_InitialRecordFirst ==
    /\ submit_pc = "returned" =>
          /\ upload_key = IntakeKey(NewJobId)
          /\ invocations = 0 =>
                result_json = MenuResult(NewJobId, PROCESSING, <<>>, None)
    /\ invocations >= 1 =>
          /\ submit_pc = "returned"
          /\ published = <<>> =>
                result_json = MenuResult(NewJobId, PROCESSING, <<>>, None)
          /\ published # <<>> => result_json = Last(published)

\* C33 witness: the process handler has replaced the initial record by a
\* terminal snapshot.
C33_Witness ==
    /\ submit_pc = "returned"
    /\ invocations = 1
    /\ Len(published) >= 2
    /\ IsTerminal(Last(published))
    /\ result_json = Last(published)

\* C34: every key the process handler writes in the results bucket is
\* {job_id}/result.json and every object in the images bucket is under
\* {job_id}/dish_{index}.png for an index of the dish list, job_id being the
\* first path segment of the intake key; every JobResult published carries
\* that job_id, and the object under the result key is the last JobResult
\* written, whole.
C34_WritesStayInJob ==
    /\ invocations = 0 => (published = <<>> /\ image_store = {})
    /\ invocations >= 1 =>
        /\ job_id = upload_key[1]
        /\ result_keys \subseteq {upload_key[1] \o "/result.json"}
        /\ \A o \in image_store :
              \E i \in 0 .. (Len(dishes) - 1) :
                 o.key = upload_key[1] \o "/dish_" \o ToString(i) \o ".png"
        /\ \A k \in 1 .. Len(published) : published[k].job_id = upload_key[1]
        /\ published # <<>> => result_json = Last(published)

\* C34 witness: two images and the terminal snapshot have been written.
C34_Witness ==
    /\ entry = "handler"
    /\ pc = "done"
    /\ Cardinality(image_store) = 2
    /\ result_keys = {"job-1/result.json"}
    /\ Len(published) = 3
    /\ Last(published).job_id = "job-1"

\* The dish lists ds1 and ds2 differ in the image_url of dish i and in
\* nothing else.
OnlyUrlOf(ds1, ds2, i) ==
    /\ Len(ds1) = Len(ds2)
    /\ i + 1 \in 1 .. Len(ds1)
    /\ ds2 = [ds1 EXCEPT ![i + 1].image_url = ds2[i + 1].image_url]

\* C36: during the image stage of the process handler a step of a worker
\* task changes neither the dish list nor the result sink; the dish list
\* changes only in the image_url of one dish, in the step in which the
\* orchestrator consumes that dish's finished task; and a snapshot published
\* in the stage is the dish list as that step leaves it.
C36_OnlyOrchestratorWrites ==
    [][(entry = "handler" /\ pc \in {"pool", "pool_exit"}) =>
          /\ task' # task =>
                (dishes' = dishes /\ published' = published
                    /\ result_json' = result_json)
          /\ dishes' # dishes =>
                \E i \in DOMAIN task :
                   /\ Finished(i)
                   /\ i \notin consumed
                   /\ consumed' = consumed \cup {i}
                   /\ OnlyUrlOf(dishes, dishes', i)
                   /\ dishes[i + 1].image_url = None
          /\ (published' # published /\ pc' \in {"pool", "done"}) =>
                /\ Last(published').dishes = dishes'
                /\ \A i \in 1 .. Len(dishes') :
                      dishes'[i].image_url # None <=> (i - 1) \in consumed'
      ]_vars

\* C36 witness: a snapshot published while another worker is still running.
C36_Witness ==
    /\ entry = "handler"
    /\ pc = "pool"
    /\ Len(dishes) = 2
    /\ consumed = {1}
    /\ task[0].state = "running"
    /\ task[0].calls = 1
    /\ Len(published) = 2
    /\ Last(published).dishes = dishes
    /\ dishes[1].image_url = None
    /\ dishes[2].image_url # None

\* C38: in the process handler, whatever the order in which the tasks
\* complete, the object under {job_id}/dish_{i}.png holds the bytes produced
\* by the task submitted for dish i, the URL of dishes[i] is the URL of that
\* object (or the placeholder when that task failed), and an image_url once
\* assigned is not assigned again.
C38_OutcomeGoesToItsDish ==
    /\ [](entry = "handler" =>
            /\ \A o \in image_store :
                  \E i \in DOMAIN task :
                     /\ i \in consumed
                     /\ task[i].state = "ok"
                     /\ o.key = ImageKey(job_id, i)
                     /\ o.body = ImageFor(i)
            /\ \A i \in DOMAIN task :
                  dishes[i + 1].image_url # None =>
                     /\ i \in consumed
                     /\ dishes[i + 1].image_url =
                           IF task[i].state = "ok"
                           THEN PresignedUrl(ImageKey(job_id, i))
                           ELSE PLACEHOLDER_IMAGE_URL)
    /\ [][entry = "handler" =>
            \A i \in 1 .. Len(dishes) :
               dishes[i].image_url # None =>
                  (Len(dishes') = Len(dishes)
                      /\ dishes'[i].image_url = dishes[i].image_url)]_vars

\* C38 witness: dish 1 completed and was published before dish 0, and both
\* images are stored.
C38_Witness ==
    /\ entry = "handler"
    /\ pc = "done"
    /\ Len(dishes) = 2
    /\ Len(published) = 3
    /\ published[2].dishes[1].image_url = None
    /\ published[2].dishes[2].image_url = PresignedUrl(ImageKey(job_id, 1))
    /\ [key |-> ImageKey(job_id, 0), body |-> ImageFor(0)] \in image_store
    /\ [key |-> ImageKey(job_id, 1), body |-> ImageFor(1)] \in image_store

\* C39: in every snapshot the process handler has published, a dish whose
\* image_url is a real URL has its object in the images bucket, and that URL
\* is the URL of the object's key.
C39_RealUrlHasObject ==
    entry = "handler" =>
        \A k \in 1 .. Len(published) :
           \A i \in 1 .. Len(published[k].dishes) :
              IsReal(published[k].dishes[i].image_url) =>
                 \E o \in image_store :
                    published[k].dishes[i].image_url = PresignedUrl(o.key)

\* C39 witness: a processing snapshot with one real URL, its object stored,
\* while the other dish is still being generated.
C39_Witness ==
    /\ entry = "handler"
    /\ pc = "pool"
    /\ Len(published) = 2
    /\ Len(dishes) = 2
    /\ IsReal(Last(published).dishes[1].image_url)
    /\ Last(published).dishes[2].image_url = None
    /\ Cardinality(image_store) = 1

\* C40: in the process handler the OCR path of the extraction chain returns
\* only a non-empty dish list, recorded as method textract; every other
\* return, an empty list among them, is the return of the vision call,
\* recorded as method vision; so a job published as completed with no dishes
\* was extracted by vision.
C40_EmptyOnlyFromVision ==
    /\ [][(entry = "handler" /\ pc # "extracted" /\ pc' = "extracted") =>
            IF pc = "llm"
            THEN /\ dishes' # <<>>
                 /\ extraction_method' = "textract"
                 /\ CallsTo("structure_menu_from_image") = {}
            ELSE /\ pc = "vision_wait"
                 /\ Last(frame.calls).fn = "structure_menu_from_image"
                 /\ extraction_method' = "vision"]_vars
    /\ [](entry = "handler" =>
            \A k \in 1 .. Len(published) :
               (published[k].status = COMPLETED /\ published[k].dishes = <<>>)
                  => extraction_method = "vision")

\* C40 witness: a job completed with no dishes after the vision call
\* returned an empty list.
C40_Witness ==
    /\ entry = "handler"
    /\ pc = "done"
    /\ published = <<EmptyResult(job_id)>>
    /\ extraction_method = "vision"

\* A write to the result sink has raised in this invocation.
SinkWriteRaised == pc = "raised" \/ exc.origin = "store_results"

\* C37: every invocation of the process handler eventually returns with a
\* terminal JobResult published last, unless a write to the result sink
\* raised; this includes the runs in which every image-generation attempt
\* of every dish is throttled.
C37_EventuallyTerminal ==
    (entry = "handler" /\ invocations >= 1)
        ~> \/ (pc = "done" /\ published # <<>> /\ IsTerminal(Last(published)))
           \/ SinkWriteRaised

\* C37 witness: the handler has returned after every attempt of both dishes
\* was throttled.
C37_Witness ==
    /\ entry = "handler"
    /\ pc = "done"
    /\ Len(dishes) = 2
    /\ \A i \in DOMAIN task :
          /\ task[i].state = "fail"
          /\ task[i].last = "throttled"
          /\ task[i].calls = MAX_RETRIES
    /\ Last(published).status = PARTIAL
    /\ ~SinkWriteRaised

\* C35: timing and method-selection diagnostics do not steer the handler.
\* Two runs that get the same responses and the same completion order, but
\* measure different durations, are at the same point of the handler and
\* have published the same sequence of JobResults.
C35_ClockDoesNotSteer ==
    entry = "two_runs" =>
        /\ run_b.published = run_a.published
        /\ run_b.pc = run_a.pc

\* C35 witness: both runs have returned after the fallback to vision and
\* two images, with different timings recorded.
C35_Witness ==
    /\ entry = "two_runs"
    /\ run_a.pc = "done"
    /\ run_b.pc = "done"
    /\ run_a.timings.extraction_method = "vision"
    /\ run_a.timings.ocr = 0
    /\ run_b.timings.ocr = 1
    /\ run_b.timings.total > run_a.timings.total
    /\ Len(run_a.published) = 3
    /\ Last(run_a.published).status = PARTIAL

====
